---- MODULE Spec2Model ----
(***************************************************************************)
(* A model of the comproc daemon: the dependency resolver, the process     *)
(* handle (internal/process), the daemon core (internal/daemon) and the    *)
(* restart supervisor.                                                     *)
(***************************************************************************)
EXTENDS Integers, Sequences, FiniteSets, TLC

(***************************************************************************)
(* Bounds of the model.                                                    *)
(***************************************************************************)
MaxStarts == 3
MaxRequests == 2
MaxSupRequests == 1
MaxMonitors == 1
MaxConns == 2
MaxFailures == 8
MaxLines == 4
MaxSubscribers == 2
MaxBufferSize == 2
SubscriberCap == 2
MaxSends == 2
MaxWrites == 2
MaxChunk == 2
MaxGraph == 3
MaxEdges == 4

(***************************************************************************)
(* Names a client may send; a configuration defines some of them.          *)
(***************************************************************************)
Names == {"a", "b", "c", "x"}

RestartAlways == "always"
RestartOnFailure == "on-failure"
RestartNever == "never"

StateStopped == "stopped"
StateStarting == "starting"
StateRunning == "running"
StateStopping == "stopping"
StateFailed == "failed"
States == {StateStopped, StateStarting, StateRunning, StateStopping, StateFailed}

(***************************************************************************)
(* Configurations the loader accepts: every depends_on entry is a defined  *)
(* service and the graph is acyclic.  order is Config.ServiceOrder, deps   *)
(* is Service.DependsOn by service name, restart is Service.Restart (""    *)
(* when absent).  The commands and directories behind the names: broken   *)
(* are the services whose working directory the operating system may fail  *)
(* to enter, so that their spawn may fail; exits are the exit codes the    *)
(* service's command can end with by itself (none: it runs until it is     *)
(* signalled, as sleep 60 does).                                           *)
(***************************************************************************)
Configs ==
    { [order   |-> <<"c", "a", "b">>,
       deps    |-> [a |-> <<>>, b |-> <<"a">>, c |-> <<"b">>],
       restart |-> [a |-> RestartAlways, b |-> RestartOnFailure, c |-> ""],
       broken  |-> {"a"},
       exits   |-> [a |-> {}, b |-> {1}, c |-> {0}]],
      [order   |-> <<"b", "c", "a">>,
       deps    |-> [a |-> <<>>, b |-> <<"a">>, c |-> <<"a">>],
       restart |-> [a |-> RestartNever, b |-> RestartAlways,
                    c |-> RestartOnFailure],
       broken  |-> {},
       exits   |-> [a |-> {0}, b |-> {}, c |-> {}]],
      [order   |-> <<"c", "b", "a">>,
       deps    |-> [a |-> <<>>, b |-> <<>>, c |-> <<"b", "a">>],
       restart |-> [a |-> RestartOnFailure, b |-> RestartNever,
                    c |-> RestartAlways],
       broken  |-> {"b"},
       exits   |-> [a |-> {1}, b |-> {}, c |-> {}]] }

(* The configurations the supervisor is exercised with. *)
SupConfigs ==
    { [order   |-> <<"b", "a">>,
       deps    |-> [a |-> <<>>, b |-> <<"a">>],
       restart |-> [a |-> RestartAlways, b |-> RestartOnFailure],
       broken  |-> {"a"},
       exits   |-> [a |-> {0}, b |-> {}]],
      [order   |-> <<"a", "b">>,
       deps    |-> [a |-> <<>>, b |-> <<>>],
       restart |-> [a |-> "", b |-> RestartOnFailure],
       broken  |-> {},
       exits   |-> [a |-> {1}, b |-> {0}]] }

Defined(c) == DOMAIN c.deps

GetRestartPolicy(c, s) ==
    IF c.restart[s] = "" THEN RestartNever ELSE c.restart[s]

Range(q) == { q[i] : i \in 1..Len(q) }

(***************************************************************************)
(* Depth-first visits of the resolvers.  st is the pair of the closure's   *)
(* visited map and result slice.                                           *)
(***************************************************************************)
RECURSIVE visitDeps(_, _, _)
RECURSIVE visitDepsAll(_, _, _)
(* visit with the append moved before the recursion *)
visitDepsPreorder(c, name, st) ==
    IF name \in st.visited THEN st
    ELSE LET st1 == [st EXCEPT !.visited = @ \cup {name},
                               !.result = Append(@, name)]
         IN IF name \in Defined(c)
            THEN visitDepsAll(c, c.deps[name], st1)
            ELSE st1

visitDeps(c, name, st) ==
    IF name \in st.visited THEN st
    ELSE LET st1 == [st EXCEPT !.visited = @ \cup {name}]
             st2 == IF name \in Defined(c)
                    THEN visitDepsAll(c, c.deps[name], st1)
                    ELSE st1
         IN [st2 EXCEPT !.result = Append(@, name)]

visitDepsAll(c, names, st) ==
    IF names = <<>> THEN st
    ELSE visitDepsAll(c, Tail(names), visitDeps(c, Head(names), st))

EmptyVisit == [visited |-> {}, result |-> <<>>]

TopologicalSort(c) == visitDepsAll(c, c.order, EmptyVisit).result

resolveDependencies(c, services) == visitDepsAll(c, services, EmptyVisit).result

(***************************************************************************)
(* resolveDependents builds the reverse map by ranging over the services   *)
(* map, whose iteration order the language leaves open: iter is that       *)
(* order, and dependentsOf(c, iter, dep) is dependents[dep].               *)
(***************************************************************************)
Perms(S) == { p \in [1..Cardinality(S) -> S] :
                \A i, j \in DOMAIN p : i # j => p[i] # p[j] }

RECURSIVE dependentsOf(_, _, _)
dependentsOf(c, iter, dep) ==
    IF iter = <<>> THEN <<>>
    ELSE LET rest == dependentsOf(c, Tail(iter), dep)
         IN IF dep \in Range(c.deps[Head(iter)])
            THEN <<Head(iter)>> \o rest
            ELSE rest

RECURSIVE visitDependents(_, _, _, _)
RECURSIVE visitDependentsAll(_, _, _, _)
(* visit with the append moved before the recursion *)
visitDependentsPreorder(c, iter, name, st) ==
    IF name \in st.visited THEN st
    ELSE LET st1 == [st EXCEPT !.visited = @ \cup {name},
                               !.result = Append(@, name)]
         IN IF name \in Defined(c)
            THEN visitDependentsAll(c, iter, dependentsOf(c, iter, name), st1)
            ELSE st1

visitDependents(c, iter, name, st) ==
    IF name \in st.visited THEN st
    ELSE LET st1 == [st EXCEPT !.visited = @ \cup {name}]
             st2 == IF name \in Defined(c)
                    THEN visitDependentsAll(c, iter, dependentsOf(c, iter, name), st1)
                    ELSE st1
         IN [st2 EXCEPT !.result = Append(@, name)]

visitDependentsAll(c, iter, names, st) ==
    IF names = <<>> THEN st
    ELSE visitDependentsAll(c, iter, Tail(names),
                            visitDependents(c, iter, Head(names), st))

resolveDependents(c, iter, services) ==
    visitDependentsAll(c, iter, services, EmptyVisit).result

RECURSIVE Reverse(_)
Reverse(q) == IF q = <<>> THEN <<>> ELSE Append(Reverse(Tail(q)), Head(q))


(***************************************************************************)
(* Target lists a client may send with up, down and restart.               *)
(***************************************************************************)
TargetLists ==
    {<<>>} \cup { <<n>> : n \in Names } \cup {<<"c", "a">>, <<"b", "x">>}

(***************************************************************************)
(* State.                                                                  *)
(*   cfg        Daemon.config                                              *)
(*   state, exitCode, restarts, startedAt, done   the Process fields;      *)
(*              done[s] is the identity of the channel p.done (0: nil)     *)
(*   pid        what Process.PID() returns (cmd.Process.Pid, or 0)         *)
(*   closed     the done channels that have been closed                    *)
(*   children   the child processes that have not exited; ctx is the       *)
(*              context the command is bound to (0: the daemon's, else a   *)
(*              monitor's), term / kill the signals sent to it             *)
(*   nStart     the number of channels made by Process.Start so far        *)
(*   dCancelled Daemon.ctx is cancelled                                    *)
(*   crashed    a goroutine of the daemon has panicked                     *)
(*   op         the lifecycle operation that holds Daemon.mu               *)
(*   pendingRestart  the stopped lists of RestartServices calls that wait  *)
(*              for Daemon.mu to run their StartServices half              *)
(*   shutdownPending Shutdown has cancelled and waits to run StopAll       *)
(*   monitors   Supervisor.monitors (0: no entry), mons the live monitor   *)
(*              goroutines, cancelled the cancelled monitor contexts       *)
(*   downed     the services a returned down covered, until the next up    *)
(*              or restart request that covers them                        *)
(*   booted     the daemon's launcher has made its StartServices call      *)
(***************************************************************************)
VARIABLES cfg, state, pid, exitCode, restarts, startedAt, done, closed,
          children, nStart, dCancelled, crashed, op, pendingRestart,
          shutdownPending, nReq, monitors, mons, cancelled, nMon, downed,
          booted,
          listener, socketFile, conns, connOpen, peerClosed, acceptPc,
          accepted, runPc, handlers, nConn,
          monPc, monPolicy, consecutiveFailures, backoff, sleeps,
          bufferSize, buffers, subscribers, nLines, added,
          inbox, out, cur, nSent,
          chunks, partial, emitted,
          graph, verdict,
          chans, snap

procVars == <<state, pid, exitCode, restarts, startedAt, done, closed,
              children, nStart>>
supVars == <<monitors, mons, cancelled, nMon>>
serverVars == <<listener, socketFile, conns, connOpen, peerClosed, acceptPc,
                accepted, runPc, handlers, nConn>>
backoffVars == <<monPc, monPolicy, consecutiveFailures, backoff, sleeps>>
logVars == <<bufferSize, buffers, subscribers, nLines, added>>
connVars == <<inbox, out, cur, nSent>>
writerVars == <<chunks, partial, emitted>>
configVars == <<graph, verdict>>
busVars == <<chans, snap>>
vars == <<cfg, state, pid, exitCode, restarts, startedAt, done, closed,
          children, nStart, dCancelled, crashed, op, pendingRestart,
          shutdownPending, nReq, monitors, mons, cancelled, nMon, downed,
          booted, serverVars, backoffVars, logVars, connVars, writerVars,
          configVars, busVars>>

Services == DOMAIN state

NoWait == [name |-> "", gen |-> 0, pid |-> 0, phase |-> "none"]

Idle == [kind |-> "idle", origin |-> "", targets |-> <<>>, list |-> <<>>,
         idx |-> 1, started |-> <<>>, failed |-> <<>>, stopped |-> <<>>,
         wait |-> NoWait]

(* the services that write log lines *)
LogServices == {"a", "b"}

(* no entry in LogManager.buffers *)
NoBuffer == [items |-> <<>>, size |-> 0, head |-> 0, count |-> 0]

(* no entry in LogManager.subscribers *)
NoSubscriber == [active |-> FALSE, ch |-> <<>>, services |-> {}]

(* no configuration file parsed yet *)
NoGraph == [order |-> <<>>, deps |-> <<>>]

(* no request line in the hands of a connection's handler *)
(* no logs request of the connection is between its snapshot and its       *)
(* subscription                                                            *)
NoSnapshot == [id |-> 0, lines |-> <<>>]

NoRequest == [json |-> TRUE, method |-> "", params |-> "", id |-> 0]

(* process.New for every service of the configuration: Daemon.New *)
InitWith(cs) ==
    /\ cfg \in cs
    /\ state = [s \in Defined(cfg) |-> StateStopped]
    /\ pid = [s \in Defined(cfg) |-> 0]
    /\ exitCode = [s \in Defined(cfg) |-> 0]
    /\ restarts = [s \in Defined(cfg) |-> 0]
    /\ startedAt = [s \in Defined(cfg) |-> FALSE]
    /\ done = [s \in Defined(cfg) |-> 0]
    /\ closed = {}
    /\ children = {}
    /\ nStart = 0
    /\ dCancelled = FALSE
    /\ crashed = FALSE
    /\ op = Idle
    /\ pendingRestart = <<>>
    /\ shutdownPending = FALSE
    /\ nReq = 0
    /\ monitors = [s \in Defined(cfg) |-> 0]
    /\ mons = {}
    /\ cancelled = {}
    /\ nMon = 0
    /\ downed = {}
    /\ booted = FALSE
    /\ listener = "none"
    /\ socketFile = FALSE
    /\ conns = {}
    /\ connOpen = {}
    /\ peerClosed = {}
    /\ acceptPc = "idle"
    /\ accepted = 0
    /\ runPc = "init"
    /\ handlers = [c \in 1..MaxConns |-> "none"]
    /\ nConn = 0
    /\ monPc = "idle"
    /\ monPolicy = ""
    /\ consecutiveFailures = 0
    /\ backoff = 0
    /\ sleeps = <<>>
    /\ bufferSize = 0
    /\ buffers = [s \in LogServices |-> NoBuffer]
    /\ subscribers = [i \in 1..MaxSubscribers |-> NoSubscriber]
    /\ nLines = 0
    /\ added = [s \in LogServices |-> <<>>]
    /\ inbox = [c \in 1..MaxConns |-> <<>>]
    /\ out = [c \in 1..MaxConns |-> <<>>]
    /\ cur = [c \in 1..MaxConns |-> NoRequest]
    /\ nSent = 0
    /\ chunks = <<>>
    /\ partial = <<>>
    /\ emitted = <<>>
    /\ graph = NoGraph
    /\ chans = <<>>
    /\ snap = [c \in 1..MaxConns |-> NoSnapshot]
    /\ verdict = "none"

Init == InitWith(Configs)

(***************************************************************************)
(* Contexts.  Context 0 is Daemon.ctx; context k > 0 is the context of     *)
(* monitor k, derived from Daemon.ctx.                                     *)
(***************************************************************************)
CtxDone(ctx) == dCancelled \/ ctx \in cancelled

(* exec.CommandContext kills the command's process once its context is done *)
KillBound(cs, ctxs) ==
    { IF c.ctx \in ctxs THEN [c EXCEPT !.kill = TRUE] ELSE c : c \in cs }

(* syscall.Kill(-pgid, sig) on the process group of the child with pid p *)
Signal(cs, p, sig) ==
    { IF c.pid = p
      THEN (IF sig = "TERM" THEN [c EXCEPT !.term = TRUE]
                            ELSE [c EXCEPT !.kill = TRUE])
      ELSE c : c \in cs }

(***************************************************************************)
(* Process.Start past its guard: a new done channel, the command built on  *)
(* ctx, and either a running child or a spawn failure.  spawn is whether   *)
(* the operating system can start the command.                             *)
(***************************************************************************)
SpawnResults(s) == IF s \in cfg.broken THEN {TRUE, FALSE} ELSE {TRUE}

StartAllowed(s) == state[s] # StateRunning /\ state[s] # StateStarting

(* a Start whose failed cmd.Start left the state as it was *)
ProcStartKeepsState(s, ctx, spawn) ==
    LET id == nStart + 1
        ok == spawn /\ ~CtxDone(ctx)
    IN /\ nStart' = id
       /\ done' = [done EXCEPT ![s] = id]
       /\ IF ok
          THEN /\ state' = [state EXCEPT ![s] = StateRunning]
               /\ pid' = [pid EXCEPT ![s] = id]
               /\ startedAt' = [startedAt EXCEPT ![s] = TRUE]
               /\ children' = children \cup
                     {[svc |-> s, pid |-> id, ctx |-> ctx,
                       term |-> FALSE, kill |-> FALSE]}
          ELSE /\ pid' = [pid EXCEPT ![s] = 0]
               /\ UNCHANGED <<state, startedAt, children>>
       /\ UNCHANGED <<exitCode, closed>>

ProcStart(s, ctx, spawn) ==
    LET id == nStart + 1
        ok == spawn /\ ~CtxDone(ctx)
    IN /\ nStart' = id
       /\ done' = [done EXCEPT ![s] = id]
       /\ IF ok
          THEN /\ state' = [state EXCEPT ![s] = StateRunning]
               /\ pid' = [pid EXCEPT ![s] = id]
               /\ startedAt' = [startedAt EXCEPT ![s] = TRUE]
               /\ children' = children \cup
                     {[svc |-> s, pid |-> id, ctx |-> ctx,
                       term |-> FALSE, kill |-> FALSE]}
          ELSE /\ state' = [state EXCEPT ![s] = StateFailed]
               /\ pid' = [pid EXCEPT ![s] = 0]
               /\ UNCHANGED <<startedAt, children>>
       /\ UNCHANGED <<exitCode, closed>>

(***************************************************************************)
(* Process.monitor: the child c exits with code and its monitor goroutine  *)
(* records the exit on the handle.  A child killed by a signal reports -1. *)
(***************************************************************************)
ExitCodes(c) ==
    IF c.kill \/ c.term THEN {-1}
    ELSE cfg.exits[c.svc]

(* a monitor that judged the exit by its code alone *)
ExitStateByCode(prev, code) ==
    IF code # 0 THEN StateFailed ELSE StateStopped

ExitState(prev, code) ==
    IF prev = StateStopping THEN StateStopped
    ELSE IF code # 0 THEN StateFailed
    ELSE StateStopped

monitor(c, code) ==
    /\ ~crashed
    /\ c \in children
    /\ code \in ExitCodes(c)
    /\ children' = children \ {c}
    /\ exitCode' = [exitCode EXCEPT ![c.svc] =
                       IF pid[c.svc] = c.pid THEN code ELSE @]
    /\ state' = [state EXCEPT ![c.svc] = ExitState(@, code)]
    /\ IF done[c.svc] \in closed
       THEN crashed' = TRUE /\ UNCHANGED closed
       ELSE closed' = closed \cup {done[c.svc]} /\ UNCHANGED crashed
    /\ UNCHANGED <<cfg, writerVars, configVars, busVars, serverVars, backoffVars, logVars, connVars, pid, restarts, startedAt, done, nStart, dCancelled,
                   op, pendingRestart, shutdownPending, nReq, supVars, downed, booted>>


(***************************************************************************)
(* Daemon.StartServices.  The operation holds Daemon.mu from StartBegin to *)
(* StartReturn and handles one name of its list per StartStep.             *)
(***************************************************************************)
(* the start list without the dependencies of the targets *)
toStartTargetsOnly(c, services) ==
    IF Len(services) = 0 THEN TopologicalSort(c)
    ELSE services

toStart(c, services) ==
    IF Len(services) = 0 THEN TopologicalSort(c)
    ELSE resolveDependencies(c, services)

(* the skip of StartServices with the check moved after Process.Start *)
startsRegardless(s) == FALSE

(* StartServices: proc.GetState() == process.StateRunning *)
alreadyRunning(s) == state[s] = StateRunning

StartOp(origin, services) ==
    [Idle EXCEPT !.kind = "start", !.origin = origin, !.targets = services,
                 !.list = toStart(cfg, services)]

StartStep ==
    /\ ~crashed
    /\ op.kind = "start"
    /\ op.idx <= Len(op.list)
    /\ LET name == op.list[op.idx]
       IN IF name \notin Services
          THEN /\ op' = [op EXCEPT !.idx = @ + 1, !.failed = Append(@, name)]
               /\ UNCHANGED procVars
          ELSE IF alreadyRunning(name)
          THEN /\ op' = [op EXCEPT !.idx = @ + 1]
               /\ UNCHANGED procVars
          ELSE IF ~StartAllowed(name)
          THEN /\ op' = [op EXCEPT !.idx = @ + 1, !.failed = Append(@, name)]
               /\ UNCHANGED procVars
          ELSE /\ nStart < MaxStarts
               /\ \E spawn \in SpawnResults(name) : ProcStart(name, 0, spawn)
               /\ op' = IF state'[name] = StateRunning
                        THEN [op EXCEPT !.idx = @ + 1,
                                        !.started = Append(@, name)]
                        ELSE [op EXCEPT !.idx = @ + 1,
                                        !.failed = Append(@, name)]
               /\ UNCHANGED restarts
    /\ UNCHANGED <<cfg, writerVars, configVars, busVars, serverVars, backoffVars, logVars, connVars, dCancelled, crashed, pendingRestart, shutdownPending,
                   nReq, supVars, downed, booted>>

StartReturn ==
    /\ ~crashed
    /\ op.kind = "start"
    /\ op.idx > Len(op.list)
    /\ op' = Idle
    /\ UNCHANGED <<cfg, writerVars, configVars, busVars, serverVars, backoffVars, logVars, connVars, procVars, dCancelled, crashed, pendingRestart,
                   shutdownPending, nReq, supVars, downed, booted>>

(***************************************************************************)
(* Daemon.StopServices with Process.Stop.  StopStep handles the next name  *)
(* up to the SIGTERM of Process.Stop; StopDone and StopTimeout are the two *)
(* branches of the select that waits for the done channel.                 *)
(***************************************************************************)
(* the stop list without the dependents of the targets *)
toStopTargetsOnly(c, iter, services) ==
    IF Len(services) = 0 THEN Reverse(TopologicalSort(c))
    ELSE services

toStop(c, iter, services) ==
    IF Len(services) = 0 THEN Reverse(TopologicalSort(c))
    ELSE resolveDependents(c, iter, services)

(* the skip of StopServices left to Process.Stop *)
stopsRegardless(s) == FALSE

(* StopServices: proc.GetState() is StateStopped or StateFailed *)
alreadyStopped(s) == state[s] = StateStopped \/ state[s] = StateFailed

StopOp(origin, iter, services) ==
    [Idle EXCEPT !.kind = "stop", !.origin = origin, !.targets = services,
                 !.list = toStop(cfg, iter, services)]

StopStep ==
    /\ ~crashed
    /\ op.kind = "stop"
    /\ op.wait.phase = "none"
    /\ op.idx <= Len(op.list)
    /\ LET name == op.list[op.idx]
       IN IF name \notin Services
          THEN /\ op' = [op EXCEPT !.idx = @ + 1]
               /\ UNCHANGED <<state, children>>
          ELSE IF alreadyStopped(name)
          THEN /\ op' = [op EXCEPT !.idx = @ + 1]
               /\ UNCHANGED <<state, children>>
          ELSE IF state[name] # StateRunning /\ state[name] # StateStarting
          THEN /\ op' = [op EXCEPT !.idx = @ + 1,
                                   !.stopped = Append(@, name)]
               /\ UNCHANGED <<state, children>>
          ELSE /\ state' = [state EXCEPT ![name] = StateStopping]
               /\ children' = Signal(children, pid[name], "TERM")
               /\ op' = [op EXCEPT !.wait = [name |-> name,
                                             gen |-> done[name],
                                             pid |-> pid[name],
                                             phase |-> "term"]]
    /\ UNCHANGED <<cfg, writerVars, configVars, busVars, serverVars, backoffVars, logVars, connVars, pid, exitCode, restarts, startedAt, done, closed,
                   nStart, dCancelled, crashed, pendingRestart,
                   shutdownPending, nReq, supVars, downed, booted>>

StopDone ==
    /\ ~crashed
    /\ op.kind = "stop"
    /\ op.wait.phase # "none"
    /\ op.wait.gen \in closed
    /\ op' = [op EXCEPT !.idx = @ + 1, !.stopped = Append(@, op.wait.name),
                        !.wait = NoWait]
    /\ UNCHANGED <<cfg, writerVars, configVars, busVars, serverVars, backoffVars, logVars, connVars, procVars, dCancelled, crashed, pendingRestart,
                   shutdownPending, nReq, supVars, downed, booted>>

StopTimeout ==
    /\ ~crashed
    /\ op.kind = "stop"
    /\ op.wait.phase = "term"
    /\ op.wait.gen \notin closed
    /\ children' = Signal(children, op.wait.pid, "KILL")
    /\ op' = [op EXCEPT !.wait.phase = "kill"]
    /\ UNCHANGED <<cfg, writerVars, configVars, busVars, serverVars, backoffVars, logVars, connVars, state, pid, exitCode, restarts, startedAt, done,
                   closed, nStart, dCancelled, crashed, pendingRestart,
                   shutdownPending, nReq, supVars, downed, booted>>

StopReturn ==
    /\ ~crashed
    /\ op.kind = "stop"
    /\ op.wait.phase = "none"
    /\ op.idx > Len(op.list)
    /\ op' = Idle
    /\ pendingRestart' = IF op.origin = "restart"
                         THEN Append(pendingRestart, op.stopped)
                         ELSE pendingRestart
    /\ downed' = IF op.origin = "down"
                 THEN downed \cup (Range(op.list) \cap Services)
                 ELSE downed
    /\ UNCHANGED <<cfg, writerVars, configVars, busVars, serverVars, backoffVars, logVars, connVars, procVars, dCancelled, crashed, shutdownPending, nReq,
                   supVars, booted>>

(***************************************************************************)
(* The requests of the RPC server (handleUp, handleDown, handleRestart)    *)
(* and Daemon.RestartServices, whose two halves take Daemon.mu separately. *)
(***************************************************************************)
CanRequest ==
    /\ ~crashed
    /\ ~dCancelled
    /\ op.kind = "idle"
    /\ nReq < MaxRequests

(* the launcher's StartServices call before the server runs *)
RunDaemon(targets) ==
    /\ ~crashed
    /\ ~booted
    /\ ~dCancelled
    /\ op.kind = "idle"
    /\ nReq = 0
    /\ booted' = TRUE
    /\ op' = StartOp("boot", targets)
    /\ UNCHANGED <<cfg, writerVars, configVars, busVars, serverVars, backoffVars, logVars, connVars, procVars, dCancelled, crashed, pendingRestart,
                   shutdownPending, nReq, supVars, downed>>

Up(targets) ==
    /\ CanRequest
    /\ op' = StartOp("up", targets)
    /\ nReq' = nReq + 1
    /\ downed' = downed \ Range(op'.list)
    /\ UNCHANGED <<cfg, writerVars, configVars, busVars, serverVars, backoffVars, logVars, connVars, procVars, dCancelled, crashed, pendingRestart,
                   shutdownPending, supVars, booted>>

Down(targets) ==
    /\ CanRequest
    /\ \E iter \in Perms(Services) : op' = StopOp("down", iter, targets)
    /\ nReq' = nReq + 1
    /\ UNCHANGED <<cfg, writerVars, configVars, busVars, serverVars, backoffVars, logVars, connVars, procVars, dCancelled, crashed, pendingRestart,
                   shutdownPending, supVars, downed, booted>>

Restart(targets) ==
    /\ CanRequest
    /\ \E iter \in Perms(Services) : op' = StopOp("restart", iter, targets)
    /\ nReq' = nReq + 1
    /\ downed' = downed \ Range(op'.list)
    /\ UNCHANGED <<cfg, writerVars, configVars, busVars, serverVars, backoffVars, logVars, connVars, procVars, dCancelled, crashed, pendingRestart,
                   shutdownPending, supVars, booted>>

RestartStart ==
    /\ ~crashed
    /\ op.kind = "idle"
    /\ pendingRestart # <<>>
    /\ op' = StartOp("restart", Head(pendingRestart))
    /\ pendingRestart' = Tail(pendingRestart)
    /\ downed' = downed \ Range(op'.list)
    /\ UNCHANGED <<cfg, writerVars, configVars, busVars, serverVars, backoffVars, logVars, connVars, procVars, dCancelled, crashed, shutdownPending, nReq,
                   supVars, booted>>

(***************************************************************************)
(* Daemon.Shutdown: cancel the daemon's context, then StopAll.  The signal  *)
(* handler that calls it is installed after the launcher's StartServices.  *)
(***************************************************************************)
ShutdownCancel ==
    /\ ~crashed
    /\ ~dCancelled
    /\ op.origin # "boot"
    /\ dCancelled' = TRUE
    /\ children' = { [c EXCEPT !.kill = TRUE] : c \in children }
    /\ shutdownPending' = TRUE
    /\ UNCHANGED <<cfg, writerVars, configVars, busVars, serverVars, backoffVars, logVars, connVars, state, pid, exitCode, restarts, startedAt, done,
                   closed, nStart, crashed, op, pendingRestart, nReq, supVars,
                   downed, booted>>

StopAll ==
    /\ ~crashed
    /\ shutdownPending
    /\ op.kind = "idle"
    /\ op' = StopOp("shutdown", cfg.order, <<>>)
    /\ shutdownPending' = FALSE
    /\ UNCHANGED <<cfg, writerVars, configVars, busVars, serverVars, backoffVars, logVars, connVars, procVars, dCancelled, crashed, pendingRestart, nReq,
                   supVars, downed, booted>>


(* a cancel function that leaves the monitor's context alive *)
cancelIgnored(id) ==
    UNCHANGED <<cancelled, children>>

(***************************************************************************)
(* Supervisor.  StartMonitoring is called for a service that has become    *)
(* running.  A monitor goroutine is [id, svc, pc, gen, cf]: id is its      *)
(* context, gen the done channel its select waits on, cf its               *)
(* consecutiveFailures, pc "wait" (the first select) or "backoff" (the     *)
(* second).                                                                *)
(***************************************************************************)
Cancel(id) ==
    /\ cancelled' = IF id = 0 THEN cancelled ELSE cancelled \cup {id}
    /\ children' = IF id = 0 THEN children ELSE KillBound(children, {id})

(* StartMonitoring while fewer than n monitors have been started *)
StartMonitoringUpTo(s, n) ==
    /\ ~crashed
    /\ state[s] = StateRunning
    /\ nMon < n
    /\ Cancel(monitors[s])
    /\ nMon' = nMon + 1
    /\ monitors' = [monitors EXCEPT ![s] = nMon + 1]
    /\ mons' = mons \cup {[id |-> nMon + 1, svc |-> s, pc |-> "wait",
                           gen |-> done[s], cf |-> 0]}
    /\ UNCHANGED <<cfg, writerVars, configVars, busVars, serverVars, backoffVars, logVars, connVars, state, pid, exitCode, restarts, startedAt, done,
                   closed, nStart, dCancelled, crashed, op, pendingRestart,
                   shutdownPending, nReq, downed, booted>>

StartMonitoring(s) == StartMonitoringUpTo(s, MaxMonitors)

StopMonitoring(s) ==
    /\ ~crashed
    /\ monitors[s] # 0
    /\ Cancel(monitors[s])
    /\ monitors' = [monitors EXCEPT ![s] = 0]
    /\ UNCHANGED <<cfg, writerVars, configVars, busVars, serverVars, backoffVars, logVars, connVars, state, pid, exitCode, restarts, startedAt, done,
                   closed, nStart, dCancelled, crashed, op, pendingRestart,
                   shutdownPending, nReq, mons, nMon, downed, booted>>

(* the decision with the never case restarting on a failure *)
shouldRestartOnAnyFailure(policy, st, code) ==
    IF policy = RestartAlways THEN TRUE
    ELSE code # 0 \/ st = StateFailed

shouldRestart(policy, st, code) ==
    IF policy = RestartAlways THEN TRUE
    ELSE IF policy = RestartOnFailure THEN code # 0 \/ st = StateFailed
    ELSE FALSE

(* Supervisor.monitor from the first select to the restart decision *)
SupervisorWait(m) ==
    /\ ~crashed
    /\ m \in mons
    /\ m.pc = "wait"
    /\ \/ /\ CtxDone(m.id)
          /\ mons' = mons \ {m}
       \/ /\ m.gen \in closed
          /\ mons' = IF /\ shouldRestart(GetRestartPolicy(cfg, m.svc),
                                         state[m.svc], exitCode[m.svc])
                        /\ ~CtxDone(m.id)
                     THEN (mons \ {m}) \cup
                          {[m EXCEPT !.pc = "backoff", !.cf = @ + 1]}
                     ELSE mons \ {m}
    /\ UNCHANGED <<cfg, writerVars, configVars, busVars, serverVars, backoffVars, logVars, connVars, procVars, dCancelled, crashed, op, pendingRestart,
                   shutdownPending, nReq, monitors, cancelled, nMon, downed, booted>>

(* Supervisor.monitor from the second select to the next loop iteration *)
(* a restart attempt that left the counter alone *)
restartsUncounted(s) == restarts

(* Process.IncrementRestarts *)
IncrementRestarts(s) == [restarts EXCEPT ![s] = @ + 1]

SupervisorRestart(m) ==
    /\ ~crashed
    /\ m \in mons
    /\ m.pc = "backoff"
    /\ \/ /\ CtxDone(m.id)
          /\ mons' = mons \ {m}
          /\ UNCHANGED procVars
       \/ /\ restarts' = IncrementRestarts(m.svc)
          /\ IF StartAllowed(m.svc)
             THEN /\ nStart < MaxStarts
                  /\ \E spawn \in SpawnResults(m.svc) : ProcStart(m.svc, m.id, spawn)
             ELSE UNCHANGED <<state, pid, exitCode, startedAt, done, closed,
                              children, nStart>>
          /\ mons' = (mons \ {m}) \cup
                     {[m EXCEPT !.pc = "wait", !.gen = done'[m.svc]]}
    /\ UNCHANGED <<cfg, writerVars, configVars, busVars, serverVars, backoffVars, logVars, connVars, dCancelled, crashed, op, pendingRestart,
                   shutdownPending, nReq, monitors, cancelled, nMon, downed, booted>>

(* a child exits and Process.monitor records it *)
ChildExits == \E c \in children : \E code \in {-1, 0, 1} : monitor(c, code)

(***************************************************************************)
(* The daemon as it is wired: nothing in it creates a Supervisor.          *)
(***************************************************************************)
DaemonNext ==
    \/ \E t \in TargetLists : RunDaemon(t)
    \/ \E t \in TargetLists : Up(t)
    \/ \E t \in TargetLists : Down(t)
    \/ \E t \in TargetLists : Restart(t)
    \/ StartStep
    \/ StartReturn
    \/ StopStep
    \/ StopDone
    \/ StopTimeout
    \/ StopReturn
    \/ RestartStart
    \/ ShutdownCancel
    \/ StopAll
    \/ ChildExits

Next == DaemonNext

Spec == Init /\ [][Next]_vars

(***************************************************************************)
(* What runs without a client: an operation that holds Daemon.mu goes on   *)
(* to its return, the second half of RestartServices and the StopAll of    *)
(* Shutdown follow their first halves, and a child that can exit does.     *)
(* Requests are left to the clients.                                       *)
(***************************************************************************)
DaemonSteps ==
    \/ StartStep \/ StartReturn
    \/ StopStep \/ StopDone \/ StopTimeout \/ StopReturn
    \/ RestartStart \/ StopAll

FairSpec ==
    /\ Spec
    /\ WF_vars(DaemonSteps)
    /\ WF_vars(ChildExits)


(***************************************************************************)
(* The daemon with a Supervisor driven through its exported methods.       *)
(***************************************************************************)
SupInit == InitWith(SupConfigs)

SupTargetLists == {<<>>, <<"a">>, <<"b">>}

SupNext ==
    \/ \E t \in SupTargetLists : RunDaemon(t)
    \/ \E t \in SupTargetLists : nReq < MaxSupRequests /\ Up(t)
    \/ \E t \in SupTargetLists : nReq < MaxSupRequests /\ Down(t)
    \/ StartStep
    \/ StartReturn
    \/ StopStep
    \/ StopDone
    \/ StopTimeout
    \/ StopReturn
    \/ ChildExits
    \/ \E s \in Services : StartMonitoring(s)
    \/ \E s \in Services : StopMonitoring(s)
    \/ \E m \in mons : SupervisorWait(m)
    \/ \E m \in mons : SupervisorRestart(m)

SupSpec == SupInit /\ [][SupNext]_vars

TypeOK ==
    /\ state \in [Services -> States]
    /\ pid \in [Services -> 0..MaxStarts]
    /\ exitCode \in [Services -> {-1, 0, 1}]
    /\ restarts \in [Services -> Nat]
    /\ done \in [Services -> 0..MaxStarts]
    /\ closed \subseteq 1..MaxStarts
    /\ nStart \in 0..MaxStarts
    /\ nMon \in 0..MaxMonitors
    /\ op.kind \in {"idle", "start", "stop"}


(***************************************************************************)
(* The dependency relation of the configuration, stated apart from the     *)
(* resolvers.                                                              *)
(***************************************************************************)
DepsOf(c, s) == IF s \in Defined(c) THEN Range(c.deps[s]) ELSE {}

DependentsOf(c, s) == { d \in Defined(c) : s \in Range(c.deps[d]) }

RECURSIVE DownClosure(_, _)
DownClosure(c, S) ==
    LET T == S \cup UNION { DepsOf(c, x) : x \in S }
    IN IF T = S THEN S ELSE DownClosure(c, T)

RECURSIVE UpClosure(_, _)
UpClosure(c, S) ==
    LET T == S \cup UNION { DependentsOf(c, x) : x \in S }
    IN IF T = S THEN S ELSE UpClosure(c, T)

(* the direct and transitive dependencies of s *)
TransDeps(c, s) == DownClosure(c, DepsOf(c, s))

NoDuplicates(q) == \A i, j \in 1..Len(q) : q[i] = q[j] => i = j

DepsFirst(q) ==
    \A i, j \in 1..Len(q) : q[i] \in TransDeps(cfg, q[j]) => i < j

DependentsFirst(q) ==
    \A i, j \in 1..Len(q) : q[j] \in TransDeps(cfg, q[i]) => i < j

(***************************************************************************)
(* C1.  Start ordering: in the started list of every StartServices call    *)
(* (an up request with or without targets, from any state) each service    *)
(* comes after every direct or transitive dependency of it that is in the  *)
(* list too, and the children were launched in the order of the list       *)
(* (process ids are handed out in launch order).                           *)
(***************************************************************************)
C1_StartOrdering ==
    op.kind = "start" =>
        /\ NoDuplicates(op.started)
        /\ DepsFirst(op.started)
        /\ \A i, j \in 1..Len(op.started) :
               i < j => /\ pid[op.started[i]] > 0
                        /\ pid[op.started[i]] < pid[op.started[j]]

C1_Witness ==
    /\ op.kind = "start"
    /\ op.origin = "up"
    /\ op.targets # <<>>
    /\ op.idx > Len(op.list)
    /\ \E i, j \in 1..Len(op.started) :
           i < j /\ op.started[i] \in TransDeps(cfg, op.started[j])

(***************************************************************************)
(* C2.  Stop ordering: in the stopped list of every StopServices call (a   *)
(* down request with or without targets, from any state) each service      *)
(* comes before every direct or transitive dependency of it that is in the *)
(* list too, and the processes are stopped in that order: a service is in  *)
(* the list only once its process has ended, before the next is signalled. *)
(***************************************************************************)
C2_StopOrdering ==
    op.kind = "stop" =>
        /\ NoDuplicates(op.stopped)
        /\ DependentsFirst(op.stopped)
        /\ \A s \in Range(op.stopped) :
               /\ state[s] \in {StateStopped, StateFailed}
               /\ \A c \in children : c.svc # s

C2_Witness ==
    /\ op.kind = "stop"
    /\ op.origin = "down"
    /\ op.targets # <<>>
    /\ op.wait.phase = "none"
    /\ op.idx > Len(op.list)
    /\ \E i, j \in 1..Len(op.stopped) :
           i < j /\ op.stopped[j] \in TransDeps(cfg, op.stopped[i])


(***************************************************************************)
(* Steps of the supervisor seen from outside: a supervised launch is a new *)
(* child on a monitor's context, a decision to restart is a monitor that   *)
(* goes from its first select to its backoff.                              *)
(***************************************************************************)
Policy(s) == GetRestartPolicy(cfg, s)

Launches == { c \in children' : \A o \in children : o.pid # c.pid }

SupervisedLaunches == { c \in Launches : c.ctx # 0 }

DecidesRestart(m) ==
    /\ m \in mons
    /\ m.pc = "wait"
    /\ \E n \in mons' : n.id = m.id /\ n.pc = "backoff"

(***************************************************************************)
(* C3.  Restart policy safety: the supervisor relaunches a service and     *)
(* counts a restart only from a monitor that decided to restart; a monitor *)
(* never decides so under policy never, nor under policy on-failure when   *)
(* the exit it woke on left exit code 0 and state stopped; under policy    *)
(* never the restarts counter stays 0.                                     *)
(***************************************************************************)
C3_Step ==
    /\ \A c \in SupervisedLaunches :
           /\ Policy(c.svc) # RestartNever
           /\ \E m \in mons : m.id = c.ctx /\ m.svc = c.svc /\ m.pc = "backoff"
    /\ \A s \in Services :
           restarts'[s] # restarts[s] =>
               /\ Policy(s) # RestartNever
               /\ restarts'[s] = restarts[s] + 1
               /\ \E m \in mons : m.svc = s /\ m.pc = "backoff"
    /\ \A m \in mons :
           DecidesRestart(m) =>
               /\ Policy(m.svc) # RestartNever
               /\ Policy(m.svc) = RestartOnFailure =>
                      ~(exitCode[m.svc] = 0 /\ state[m.svc] = StateStopped)

C3_RestartPolicySafety ==
    /\ [](\A s \in Services : Policy(s) = RestartNever => restarts[s] = 0)
    /\ [][C3_Step]_vars

(* an on-failure service has exited with code 0 and its monitor, neither   *)
(* cancelled nor replaced, has returned without a restart                  *)
C3_Witness ==
    \E s \in Services :
        /\ Policy(s) = RestartOnFailure
        /\ state[s] = StateStopped
        /\ exitCode[s] = 0
        /\ pid[s] > 0
        /\ done[s] \in closed
        /\ restarts[s] = 0
        /\ monitors[s] # 0
        /\ monitors[s] \notin cancelled
        /\ \A m \in mons : m.id # monitors[s]

(***************************************************************************)
(* C4.  Restart liveness: a service of policy always, or of policy         *)
(* on-failure with an exit code other than 0, whose child has exited is    *)
(* eventually running again, unless a down request covers it or the daemon *)
(* shuts down (or the launches of the model are used up).                  *)
(***************************************************************************)
NamedServices == {"a", "b", "c"}

C4_Exited(s) ==
    /\ pid[s] > 0
    /\ state[s] \in {StateStopped, StateFailed}
    /\ done[s] \in closed
    /\ \/ Policy(s) = RestartAlways
       \/ Policy(s) = RestartOnFailure /\ exitCode[s] # 0
    /\ s \notin downed
    /\ ~dCancelled

C4_Excused(s) ==
    \/ s \in downed
    \/ dCancelled
    \/ nStart = MaxStarts

C4_RestartLiveness ==
    \A s \in NamedServices :
        C4_Exited(s) ~> (state[s] = StateRunning \/ C4_Excused(s))

(***************************************************************************)
(* C5.  A user stop does not race with a scheduled restart: a service that *)
(* a returned down request covered is not launched by its supervisor until *)
(* a later up or restart request.                                          *)
(***************************************************************************)
C5_NoRestartAfterDown ==
    [][\A c \in SupervisedLaunches : c.svc \notin downed]_vars

(***************************************************************************)
(* C6.  Graceful before forceful: a child the daemon has sent SIGKILL has  *)
(* been sent SIGTERM before, on every path that ends a child.              *)
(***************************************************************************)
C6_TermBeforeKill == \A c \in children : c.kill => c.term

(***************************************************************************)
(* C7.  A dependent starts only when its dependencies run: whenever an up  *)
(* request launches a service, every service of its depends_on is in state *)
(* running at that moment.                                                 *)
(***************************************************************************)
C7_DepsRunningAtLaunch ==
    [][ (op.kind = "start" /\ op.origin = "up") =>
            \A c \in Launches :
                \A d \in DepsOf(cfg, c.svc) :
                    d \in Services /\ state[d] = StateRunning ]_vars


(***************************************************************************)
(* One turn of StartServices or StopServices, seen from outside: the       *)
(* operation in progress moves to the next name of its list.               *)
(***************************************************************************)
UpTurn ==
    /\ op.kind = "start"
    /\ op.origin = "up"
    /\ op'.kind = "start"
    /\ op'.idx = op.idx + 1

DownStep ==
    /\ op.kind = "stop"
    /\ op.origin = "down"
    /\ op' # op

ChildrenOf(s) == { c \in children : c.svc = s }

OthersUntouched(n) ==
    /\ \A s \in Services \ {n} : state'[s] = state[s] /\ pid'[s] = pid[s]
    /\ \A c \in children : c.svc # n => c \in children'
    /\ \A c \in children' : c.svc # n => c \in children

ForwardClosure(targets) == DownClosure(cfg, Range(targets))

ReverseClosure(targets) == UpClosure(cfg, Range(targets))

(***************************************************************************)
(* C8.  up(targets) with targets not empty handles exactly the forward     *)
(* closure of targets, each name once.  A service of the closure that is   *)
(* running at its turn is skipped; one that is not running is launched     *)
(* and reported in started, or its spawn fails and it is reported in       *)
(* failed, left in state failed without a process.  No turn changes the    *)
(* state, the pid or the process of another service.                       *)
(***************************************************************************)
C8_Turn ==
    LET n == op.list[op.idx]
    IN /\ OthersUntouched(n)
       /\ n \in Services /\ state[n] = StateRunning =>
              /\ UNCHANGED <<state, pid, children>>
              /\ op'.started = op.started /\ op'.failed = op.failed
       /\ n \in Services /\ state[n] # StateRunning =>
              \/ /\ \E c \in Launches : c.svc = n /\ c.pid = pid'[n]
                 /\ state'[n] = StateRunning
                 /\ op'.started = Append(op.started, n)
                 /\ op'.failed = op.failed
              \/ /\ Launches = {}
                 /\ state'[n] = StateFailed
                 /\ op'.failed = Append(op.failed, n)
                 /\ op'.started = op.started
       /\ n \notin Services =>
              /\ UNCHANGED <<state, pid, children>>
              /\ op'.started = op.started
              /\ op'.failed = Append(op.failed, n)

C8_UpFrame ==
    /\ []((op.kind = "start" /\ op.targets # <<>>) =>
              /\ Range(op.list) = ForwardClosure(op.targets)
              /\ NoDuplicates(op.list))
    /\ [][(UpTurn /\ op.targets # <<>>) => C8_Turn]_vars

(* an up with targets has returned its lists: a service was launched, one  *)
(* of the closure was skipped as running, and one failed to spawn          *)
C8_Witness ==
    /\ op.kind = "start"
    /\ op.origin = "up"
    /\ op.targets # <<>>
    /\ op.idx > Len(op.list)
    /\ op.started # <<>>
    /\ op.failed # <<>>
    /\ \E s \in ForwardClosure(op.targets) \cap Services :
           /\ s \notin Range(op.started) \cup Range(op.failed)
           /\ state[s] = StateRunning
    /\ \E s \in Services \ ForwardClosure(op.targets) : TRUE

(* C8 as stated: every service of the closure that is not running at its   *)
(* turn is launched                                                        *)
C8_LaunchesAllNotRunning ==
    [][(UpTurn /\ op.targets # <<>>) =>
           LET n == op.list[op.idx]
           IN n \in Services /\ state[n] # StateRunning =>
                  \E c \in Launches : c.svc = n]_vars

(***************************************************************************)
(* C9.  down(targets) with targets not empty handles exactly the reverse   *)
(* closure of targets, each name once.  A service of the closure that is   *)
(* starting or running at its turn is sent SIGTERM and is reported in      *)
(* stopped once its process has ended; one that is stopped or failed is    *)
(* skipped.  No step of the down changes the state, the pid or the process *)
(* of another service, nor cancels the daemon: when it returns, every      *)
(* service of the closure is stopped or failed and the daemon is as open   *)
(* to requests as before.                                                  *)
(***************************************************************************)
C9_Step ==
    /\ dCancelled' = dCancelled /\ crashed' = crashed
    /\ pid' = pid
    /\ IF op.idx > Len(op.list)
       THEN /\ UNCHANGED <<state, children>>
            /\ op' = Idle
       ELSE LET n == op.list[op.idx]
            IN /\ OthersUntouched(n)
               /\ op.wait.phase = "none" /\ n \in Services
                    /\ state[n] \in {StateStarting, StateRunning} =>
                      /\ state'[n] = StateStopping
                      /\ \A c \in ChildrenOf(n) : [c EXCEPT !.term = TRUE] \in children'
                      /\ op'.wait.name = n
                      /\ op'.stopped = op.stopped
               /\ op.wait.phase = "none" /\ n \in Services
                    /\ state[n] \in {StateStopped, StateFailed} =>
                      /\ UNCHANGED <<state, children>>
                      /\ op'.stopped = op.stopped
               /\ op'.stopped # op.stopped =>
                      /\ op.wait.name = n
                      /\ op'.stopped = Append(op.stopped, n)
                      /\ state[n] = StateStopped
                      /\ ChildrenOf(n) = {}

C9_Returned ==
    /\ op.kind = "stop"
    /\ op.origin = "down"
    /\ op.targets # <<>>
    /\ op.wait.phase = "none"
    /\ op.idx > Len(op.list)

C9_DownFrame ==
    /\ []((op.kind = "stop" /\ op.targets # <<>>) =>
              /\ Range(op.list) = ReverseClosure(op.targets)
              /\ NoDuplicates(op.list))
    /\ [](C9_Returned =>
              /\ \A s \in ReverseClosure(op.targets) \cap Services :
                     state[s] \in {StateStopped, StateFailed} /\ ChildrenOf(s) = {}
              /\ Range(op.stopped) \subseteq ReverseClosure(op.targets))
    /\ [][(DownStep /\ op.targets # <<>>) => C9_Step]_vars

(* a down with targets has returned: it stopped a target and a dependent,  *)
(* and a service outside the closure still runs                            *)
C9_Witness ==
    /\ C9_Returned
    /\ Len(op.stopped) >= 2
    /\ ~dCancelled
    /\ \E s \in Services \ ReverseClosure(op.targets) :
           state[s] = StateRunning /\ \E c \in ChildrenOf(s) : c.pid = pid[s]

(***************************************************************************)
(* C10.  up is idempotent on a running service: the turn of a service that *)
(* is running adds nothing to started or failed, launches nothing and      *)
(* leaves every state, pid and process as it was; as each name has one     *)
(* turn, the returned started list does not contain it.                    *)
(***************************************************************************)
C10_UpIdempotent ==
    /\ [](op.kind = "start" => NoDuplicates(op.list))
    /\ [][UpTurn =>
             LET n == op.list[op.idx]
             IN n \in Services /\ state[n] = StateRunning =>
                    /\ op'.started = op.started
                    /\ op'.failed = op.failed
                    /\ n \notin Range(op.started)
                    /\ Launches = {}
                    /\ UNCHANGED <<state, pid, children, nStart, done>>]_vars

(* an up naming a running service has passed its turn and left it out *)
C10_Witness ==
    /\ op.kind = "start"
    /\ op.origin = "up"
    /\ op.idx > Len(op.list)
    /\ \E s \in Range(op.targets) \cap Services :
           /\ state[s] = StateRunning
           /\ pid[s] > 0
           /\ s \notin Range(op.started) \cup Range(op.failed)
           /\ \E c \in ChildrenOf(s) : c.pid = pid[s]


(***************************************************************************)
(* C11.  down is idempotent: a down whose services were all covered by a   *)
(* down that has returned, with no up or restart in between, sends no      *)
(* signal, changes no state, pid or process, and returns an empty stopped  *)
(* list; the daemon stays up.                                              *)
(***************************************************************************)
SecondDown ==
    /\ op.kind = "stop"
    /\ op.origin = "down"
    /\ Range(op.list) \cap Services # {}
    /\ Range(op.list) \cap Services \subseteq downed

C11_DownIdempotent ==
    /\ [](SecondDown =>
              /\ op.stopped = <<>>
              /\ op.wait.phase = "none"
              /\ ~crashed
              /\ \A s \in Range(op.list) \cap Services :
                     state[s] \in {StateStopped, StateFailed} /\ ChildrenOf(s) = {})
    /\ [][(SecondDown /\ op' # op) =>
              /\ UNCHANGED <<state, pid, children, exitCode, dCancelled, crashed>>
              /\ op'.stopped = <<>>]_vars

(* the second of two downs of a service that the first one terminated has  *)
(* gone through its list                                                   *)
C11_Witness ==
    /\ SecondDown
    /\ op.targets # <<>>
    /\ op.idx > Len(op.list)
    /\ \E s \in Range(op.targets) \cap Services :
           pid[s] > 0 /\ state[s] = StateStopped /\ exitCode[s] = -1


(***************************************************************************)
(* Restart requests for one targets list, from the states that the         *)
(* launcher's start, down requests and exits of children lead to.          *)
(***************************************************************************)
RestartTargets == <<"b">>

RestartNext ==
    \/ \E t \in TargetLists : RunDaemon(t)
    \/ \E t \in TargetLists : Down(t)
    \/ Restart(RestartTargets)
    \/ StartStep \/ StartReturn
    \/ StopStep \/ StopDone \/ StopTimeout \/ StopReturn
    \/ RestartStart
    \/ ChildExits

RestartSpec == Init /\ [][RestartNext]_vars

(***************************************************************************)
(* C12.  restart(targets) is down(targets) followed by up(targets): when   *)
(* the start half of a restart has gone through its list, the names it     *)
(* reports as restarted or failed are names that up(targets) handles (all  *)
(* services for empty targets, else the forward closure of targets), and   *)
(* every service up(targets) handles was launched, reported as failed, or  *)
(* is running.                                                             *)
(***************************************************************************)
UpHandles(targets) ==
    IF targets = <<>> THEN Services ELSE ForwardClosure(targets)

RestartReturns ==
    /\ op.kind = "start"
    /\ op.origin = "restart"
    /\ op.idx > Len(op.list)

C12_RestartIsDownThenUp ==
    RestartReturns =>
        /\ Range(op.started) \cup Range(op.failed) \subseteq UpHandles(RestartTargets)
        /\ \A s \in UpHandles(RestartTargets) :
               \/ s \in Range(op.started) \cup Range(op.failed)
               \/ s \in Services /\ state[s] = StateRunning


(***************************************************************************)
(* C13.  restart(targets) touches only the targets and their closures: no  *)
(* step of either half of a restart launches, signals or changes the state *)
(* or the pid of a service that is neither a target, nor a transitive      *)
(* dependent, nor a transitive dependency of a target.                     *)
(***************************************************************************)
RestartRelated ==
    ForwardClosure(RestartTargets) \cup ReverseClosure(RestartTargets)

C13_RestartFrame ==
    [][(op.origin = "restart" /\ op' # op) =>
           \A s \in Services \ RestartRelated :
               /\ state'[s] = state[s]
               /\ pid'[s] = pid[s]
               /\ \A c \in children' : c.svc = s => c \in children
               /\ \A c \in children : c.svc = s => c \in children']_vars


(***************************************************************************)
(* C14.  shutdown stops what runs as down with empty targets does: when    *)
(* the StopAll of a shutdown has gone through its list, every service that *)
(* ran when shutdown was called and that the shutdown ended (its child     *)
(* was killed by a signal) is named in the stopped list.  A child killed   *)
(* outside Process.Stop, as the cancelled context does, leaves state       *)
(* failed with exit code -1.                                               *)
(***************************************************************************)
ShutdownReturns ==
    /\ op.kind = "stop"
    /\ op.origin = "shutdown"
    /\ op.wait.phase = "none"
    /\ op.idx > Len(op.list)

KilledOutsideStop(s) ==
    /\ pid[s] > 0
    /\ exitCode[s] = -1
    /\ state[s] = StateFailed
    /\ ChildrenOf(s) = {}

C14_ShutdownStopsAll ==
    ShutdownReturns =>
        \A s \in Services : KilledOutsideStop(s) => s \in Range(op.stopped)


(***************************************************************************)
(* The RPC server.  Server.Run listens on the socket, starts the accept    *)
(* goroutine, waits for the daemon's context and closes what it tracks;    *)
(* every accepted connection has a handleConnection goroutine.             *)
(* A connection is a number of 1..MaxConns; connOpen holds the connections *)
(* whose server end has not been closed, peerClosed those the client has   *)
(* closed.                                                                 *)
(***************************************************************************)
daemonVars == <<cfg, procVars, dCancelled, crashed, op, pendingRestart,
                shutdownPending, nReq, supVars, downed, booted>>

Conns == 1..MaxConns

(* Server.Run up to the wait for ctx.Done() *)
ServerListen ==
    /\ runPc = "init"
    /\ socketFile' = TRUE
    /\ listener' = "open"
    /\ acceptPc' = "accept"
    /\ runPc' = "wait"
    /\ UNCHANGED <<daemonVars, writerVars, configVars, busVars, backoffVars, logVars, connVars, conns, connOpen, peerClosed, accepted,
                   handlers, nConn>>

(* listener.Accept() returns the connection of a client *)
Accept ==
    /\ acceptPc = "accept"
    /\ listener = "open"
    /\ nConn < MaxConns
    /\ nConn' = nConn + 1
    /\ accepted' = nConn + 1
    /\ connOpen' = connOpen \cup {nConn + 1}
    /\ acceptPc' = "register"
    /\ UNCHANGED <<daemonVars, writerVars, configVars, busVars, backoffVars, logVars, connVars, listener, socketFile, conns, peerClosed,
                   runPc, handlers>>

(* listener.Accept() fails on the closed listener: return once ctx is done *)
AcceptFails ==
    /\ acceptPc = "accept"
    /\ listener = "closed"
    /\ acceptPc' = IF dCancelled THEN "done" ELSE "accept"
    /\ UNCHANGED <<daemonVars, writerVars, configVars, busVars, backoffVars, logVars, connVars, listener, socketFile, conns, connOpen,
                   peerClosed, accepted, runPc, handlers, nConn>>

(* s.conns[conn] = true under s.mu, then go s.handleConnection(ctx, conn) *)
Register ==
    /\ acceptPc = "register"
    /\ conns' = conns \cup {accepted}
    /\ handlers' = [handlers EXCEPT ![accepted] = "check"]
    /\ accepted' = 0
    /\ acceptPc' = "accept"
    /\ UNCHANGED <<daemonVars, writerVars, configVars, busVars, backoffVars, logVars, connVars, listener, socketFile, connOpen, peerClosed,
                   runPc, nConn>>

(* Server.Run past <-ctx.Done(): listener.Close() *)
ServerCloseListener ==
    /\ runPc = "wait"
    /\ dCancelled
    /\ listener' = "closed"
    /\ runPc' = "closing"
    /\ UNCHANGED <<daemonVars, writerVars, configVars, busVars, backoffVars, logVars, connVars, socketFile, conns, connOpen, peerClosed,
                   acceptPc, accepted, handlers, nConn>>

(* Server.Run: conn.Close() for every conn of s.conns under s.mu, then the *)
(* socket file is removed and Run returns                                  *)
ServerCloseConns ==
    /\ runPc = "closing"
    /\ connOpen' = connOpen \ conns
    /\ socketFile' = FALSE
    /\ runPc' = "returned"
    /\ UNCHANGED <<daemonVars, writerVars, configVars, busVars, backoffVars, logVars, connVars, listener, conns, peerClosed, acceptPc,
                   accepted, handlers, nConn>>

(* handleConnection leaves its loop without the select on ctx.Done() *)
handlerNeverSeesDone == FALSE

(* handleConnection: the select on ctx.Done() at the top of the loop *)
handlerSeesDone == dCancelled

(* the deferred conn.Close() and delete(s.conns, conn) of handleConnection *)
HandlerReturn(c) ==
    /\ connOpen' = connOpen \ {c}
    /\ conns' = conns \ {c}
    /\ handlers' = [handlers EXCEPT ![c] = "exit"]

HandlerCheck(c) ==
    /\ handlers[c] = "check"
    /\ IF handlerSeesDone
       THEN HandlerReturn(c)
       ELSE /\ handlers' = [handlers EXCEPT ![c] = "read"]
            /\ UNCHANGED <<conns, connOpen>>
    /\ UNCHANGED <<daemonVars, writerVars, configVars, busVars, backoffVars, logVars, connVars, listener, socketFile, peerClosed, acceptPc,
                   accepted, runPc, nConn>>

(* reader.ReadBytes returns a request line the client has sent *)
HandlerReadLine(c) ==
    /\ handlers[c] = "read"
    /\ c \in connOpen
    /\ c \notin peerClosed
    /\ handlers' = [handlers EXCEPT ![c] = "request"]
    /\ UNCHANGED <<daemonVars, writerVars, configVars, busVars, backoffVars, logVars, connVars, listener, socketFile, conns, connOpen,
                   peerClosed, acceptPc, accepted, runPc, nConn>>

(* reader.ReadBytes fails: the connection was closed here, or by the      *)
(* client with every line it sent already read                             *)
HandlerReadError(c) ==
    /\ handlers[c] = "read"
    /\ c \notin connOpen \/ (c \in peerClosed /\ inbox[c] = <<>>)
    /\ HandlerReturn(c)
    /\ UNCHANGED <<daemonVars, writerVars, configVars, busVars, backoffVars, logVars, connVars, listener, socketFile, peerClosed, acceptPc,
                   accepted, runPc, nConn>>

(* handleRequest returns and the response is encoded, errors ignored *)
HandlerRespond(c) ==
    /\ handlers[c] = "request"
    /\ handlers' = [handlers EXCEPT ![c] = "check"]
    /\ UNCHANGED <<daemonVars, writerVars, configVars, busVars, backoffVars, logVars, connVars, listener, socketFile, conns, connOpen,
                   peerClosed, acceptPc, accepted, runPc, nConn>>

(* the client closes its end of the connection *)
ClientClose(c) ==
    /\ c \in connOpen
    /\ c \notin peerClosed
    /\ peerClosed' = peerClosed \cup {c}
    /\ UNCHANGED <<daemonVars, writerVars, configVars, busVars, backoffVars, logVars, connVars, listener, socketFile, conns, connOpen,
                   acceptPc, accepted, runPc, handlers, nConn>>

ServerSteps ==
    \/ ServerListen
    \/ ServerCloseListener
    \/ ServerCloseConns
    \/ AcceptFails
    \/ Register
    \/ \E c \in Conns : HandlerCheck(c)
    \/ \E c \in Conns : HandlerReadError(c)
    \/ \E c \in Conns : HandlerRespond(c)

ServerNext ==
    \/ ShutdownCancel
    \/ StopAll
    \/ StopStep
    \/ StopReturn
    \/ ServerListen
    \/ Accept
    \/ AcceptFails
    \/ Register
    \/ ServerCloseListener
    \/ ServerCloseConns
    \/ \E c \in Conns : HandlerCheck(c)
    \/ \E c \in Conns : HandlerReadLine(c)
    \/ \E c \in Conns : HandlerReadError(c)
    \/ \E c \in Conns : HandlerRespond(c)
    \/ \E c \in Conns : ClientClose(c)

ServerSpec == Init /\ [][ServerNext]_vars

(* the goroutines of the server run whenever they can; clients need not act *)
FairServerSpec ==
    /\ ServerSpec
    /\ WF_vars(ServerSteps)

(***************************************************************************)
(* C15.  After shutdown is requested (the daemon's context is cancelled)   *)
(* the server eventually has stopped accepting, has removed the socket     *)
(* file, Server.Run has returned and no accepted connection is open, and   *)
(* it stays so: a connection accepted while Run was closing the tracked    *)
(* ones does not stay open.                                                *)
(***************************************************************************)
ServerStopped ==
    /\ listener = "closed"
    /\ acceptPc = "done"
    /\ socketFile = FALSE
    /\ runPc = "returned"
    /\ connOpen = {}

SupervisedTargets == <<"a">>

SupervisedNext ==
    \/ RunDaemon(SupervisedTargets)
    \/ Up(SupervisedTargets)
    \/ Down(SupervisedTargets)
    \/ StartStep
    \/ StartReturn
    \/ StopStep
    \/ StopDone
    \/ StopTimeout
    \/ StopReturn
    \/ ChildExits
    \/ StartMonitoring("a")
    \/ \E m \in mons : SupervisorWait(m)
    \/ \E m \in mons : SupervisorRestart(m)

SupervisedSpec == SupInit /\ [][SupervisedNext]_vars

(***************************************************************************)
(* C16.  In every state and for every process record: state running        *)
(* implies pid > 0 and a set started_at; state stopped or failed implies   *)
(* that no live child exists for the service.                              *)
(***************************************************************************)
C16_StateMatchesChild ==
    \A s \in Services :
        /\ state[s] = StateRunning => pid[s] > 0 /\ startedAt[s]
        /\ state[s] \in {StateStopped, StateFailed} => ChildrenOf(s) = {}


(***************************************************************************)
(* Daemon.GetStatus: one record per process from its getters, taken under  *)
(* d.mu.RLock(), that is while no StartServices or StopServices runs.      *)
(* started_at is whether GetStartedAt() is not the zero time.              *)
(***************************************************************************)
GetStatus ==
    [s \in Services |-> [State     |-> state[s],
                         PID       |-> pid[s],
                         Restarts  |-> restarts[s],
                         ExitCode  |-> exitCode[s],
                         StartedAt |-> startedAt[s]]]

StatusTaken == op.kind = "idle" /\ ~crashed

(***************************************************************************)
(* C17.  A service that is not running reports no run data: in every       *)
(* status snapshot taken after a service was stopped or has exited, with   *)
(* its state stopped or failed, its pid is 0 and its started_at is the     *)
(* zero value.                                                             *)
(***************************************************************************)
C17_NoRunDataWhenNotRunning ==
    StatusTaken =>
        \A s \in Services :
            /\ done[s] \in closed
            /\ GetStatus[s].State \in {StateStopped, StateFailed}
            => GetStatus[s].PID = 0 /\ ~GetStatus[s].StartedAt


(***************************************************************************)
(* One run of Supervisor.monitor with the watched process reduced to its   *)
(* exits: the policy read at the start, the count of restart decisions,    *)
(* the backoff computed from it and the sleeps that ended in a restart.    *)
(* Durations are in seconds.                                               *)
(***************************************************************************)
minBackoff == 1
maxBackoff == 30

RECURSIVE Pow(_, _)
Pow(x, n) == IF n = 0 THEN 1 ELSE x * Pow(x, n - 1)

(* the exponential without the cap *)
calculateBackoffUncapped(failures) == minBackoff * Pow(2, failures - 1)

calculateBackoff(failures) ==
    LET b == minBackoff * Pow(2, failures - 1)
    IN IF b > maxBackoff THEN maxBackoff ELSE b

(* what proc.GetState() and proc.GetExitCode() can show after an exit *)
ExitOutcomes ==
    { <<StateStopped, 0>>, <<StateStopped, -1>>, <<StateFailed, 1>>,
      <<StateFailed, -1>> }

(* go s.monitor(...): policy := svc.GetRestartPolicy(); no failures yet *)
MonitorRun(s) ==
    /\ monPc = "idle"
    /\ monPolicy' = GetRestartPolicy(cfg, s)
    /\ consecutiveFailures' = 0
    /\ monPc' = "wait"
    /\ UNCHANGED <<daemonVars, writerVars, configVars, busVars, serverVars, logVars, connVars, backoff, sleeps>>

(* the process has exited: the restart decision and the backoff *)
MonitorDecide(st, code) ==
    /\ monPc = "wait"
    /\ consecutiveFailures < MaxFailures
    /\ IF shouldRestart(monPolicy, st, code)
       THEN /\ consecutiveFailures' = consecutiveFailures + 1
            /\ backoff' = calculateBackoff(consecutiveFailures + 1)
            /\ monPc' = "backoff"
       ELSE /\ monPc' = "done"
            /\ UNCHANGED <<consecutiveFailures, backoff>>
    /\ UNCHANGED <<daemonVars, writerVars, configVars, busVars, serverVars, logVars, connVars, monPolicy, sleeps>>

(* time.After(backoff) fires and the process is started again *)
MonitorRestart ==
    /\ monPc = "backoff"
    /\ sleeps' = Append(sleeps, backoff)
    /\ monPc' = "wait"
    /\ UNCHANGED <<daemonVars, writerVars, configVars, busVars, serverVars, logVars, connVars, monPolicy,
                   consecutiveFailures, backoff>>

(* ctx.Done() in either select *)
MonitorCancelled ==
    /\ monPc \in {"wait", "backoff"}
    /\ monPc' = "done"
    /\ UNCHANGED <<daemonVars, writerVars, configVars, busVars, serverVars, logVars, connVars, monPolicy,
                   consecutiveFailures, backoff, sleeps>>

BackoffNext ==
    \/ \E s \in Services : MonitorRun(s)
    \/ \E o \in ExitOutcomes : MonitorDecide(o[1], o[2])
    \/ MonitorRestart
    \/ MonitorCancelled

BackoffSpec == Init /\ [][BackoffNext]_vars

(***************************************************************************)
(* C18.  Within one supervisor run the i-th restart, counted from 1, is    *)
(* preceded by a sleep of exactly min(30s, 2^(i-1) s): 1, 2, 4, 8, 16,     *)
(* then 30 for every i >= 6; the sequence never decreases and never        *)
(* exceeds 30s.                                                            *)
(***************************************************************************)
FirstSleeps == <<1, 2, 4, 8, 16>>

ExpectedSleep(i) == IF i <= Len(FirstSleeps) THEN FirstSleeps[i] ELSE 30

NoLine == [Service |-> "", n |-> 0]

NewRingBuffer(size) ==
    [items |-> [i \in 1..size |-> NoLine], size |-> size, head |-> 0,
     count |-> 0]

(* RingBuffer.Add; items is indexed from 1, head from 0 *)
Add(b, item) ==
    [b EXCEPT !.items[b.head + 1] = item,
              !.head = (b.head + 1) % b.size,
              !.count = IF b.count < b.size THEN b.count + 1 ELSE b.count]

(* GetAll reading from index 0 whatever the count *)
startAtZero(b) == 0

(* GetAll: start := 0; if b.count == b.size { start = b.head } *)
startOf(b) == IF b.count = b.size THEN b.head ELSE 0

GetAll(b) ==
    [i \in 1..b.count |-> b.items[((startOf(b) + i - 1) % b.size) + 1]]

RingLen(b) == b.count

FilterSets == {{}, {"a"}}

(* the filter of a subscriber left out *)
matchesAny(sub, line) == TRUE

(* sub.services != nil && !sub.services[line.Service] is false *)
matches(sub, line) == sub.services = {} \/ line.Service \in sub.services

(* a send that waits for room in the channel of a matching subscriber *)
publishBlockedOnFull(line) ==
    \E i \in DOMAIN subscribers :
        /\ subscribers[i].active
        /\ matches(subscribers[i], line)
        /\ Len(subscribers[i].ch) = SubscriberCap

(* select { case sub.ch <- line: default: } never waits *)
publishBlocked(line) == FALSE

(* the select of addLine on one subscriber *)
trySend(sub, line) ==
    IF Len(sub.ch) < SubscriberCap
    THEN [sub EXCEPT !.ch = Append(@, line)]
    ELSE sub

NewLogManager(size) ==
    /\ bufferSize = 0
    /\ bufferSize' = size
    /\ UNCHANGED <<daemonVars, writerVars, configVars, busVars, serverVars, backoffVars, connVars, buffers, subscribers,
                   nLines, added>>

Subscribe(i, services) ==
    /\ bufferSize > 0
    /\ ~subscribers[i].active
    /\ subscribers' = [subscribers EXCEPT
                         ![i] = [active |-> TRUE, ch |-> <<>>,
                                 services |-> services]]
    /\ UNCHANGED <<daemonVars, writerVars, configVars, busVars, serverVars, backoffVars, connVars, bufferSize, buffers,
                   nLines, added>>

Unsubscribe(i) ==
    /\ subscribers[i].active
    /\ subscribers' = [subscribers EXCEPT ![i] = NoSubscriber]
    /\ UNCHANGED <<daemonVars, writerVars, configVars, busVars, serverVars, backoffVars, connVars, bufferSize, buffers,
                   nLines, added>>

(* the reader of the channel takes the oldest line *)
Receive(i) ==
    /\ subscribers[i].active
    /\ subscribers[i].ch # <<>>
    /\ subscribers' = [subscribers EXCEPT ![i].ch = Tail(@)]
    /\ UNCHANGED <<daemonVars, writerVars, configVars, busVars, serverVars, backoffVars, connVars, bufferSize, buffers,
                   nLines, added>>

addLine(svc) ==
    LET line == [Service |-> svc, n |-> nLines + 1]
        buf == IF buffers[svc] = NoBuffer THEN NewRingBuffer(bufferSize)
               ELSE buffers[svc]
    IN /\ bufferSize > 0
       /\ nLines < MaxLines
       /\ ~publishBlocked(line)
       /\ nLines' = nLines + 1
       /\ buffers' = [buffers EXCEPT ![svc] = Add(buf, line)]
       /\ added' = [added EXCEPT ![svc] = Append(@, line)]
       /\ subscribers' =
            [i \in DOMAIN subscribers |->
               IF subscribers[i].active /\ matches(subscribers[i], line)
               THEN trySend(subscribers[i], line)
               ELSE subscribers[i]]
       /\ UNCHANGED <<daemonVars, writerVars, configVars, busVars, serverVars, backoffVars, connVars, bufferSize>>

LogNext ==
    \/ \E size \in 1..MaxBufferSize : NewLogManager(size)
    \/ \E i \in 1..MaxSubscribers : \E f \in FilterSets : Subscribe(i, f)
    \/ \E i \in 1..MaxSubscribers : Unsubscribe(i)
    \/ \E i \in 1..MaxSubscribers : Receive(i)
    \/ \E svc \in LogServices : addLine(svc)

LogSpec == InitWith({CHOOSE c \in Configs : TRUE}) /\ [][LogNext]_vars

(***************************************************************************)
(* C19.  The ring buffer is a bounded FIFO of capacity C: after k adds     *)
(* Len() is min(k, C) and GetAll() is the last min(k, C) added records,    *)
(* oldest first; an add on a full buffer evicts exactly the oldest record. *)
(***************************************************************************)
MinOf(x, y) == IF x < y THEN x ELSE y

LastOf(q, n) == [i \in 1..n |-> q[Len(q) - n + i]]

C19_Snapshot ==
    \A svc \in LogServices :
        buffers[svc] # NoBuffer =>
            LET k == Len(added[svc])
                C == buffers[svc].size
            IN /\ RingLen(buffers[svc]) = MinOf(k, C)
               /\ GetAll(buffers[svc]) = LastOf(added[svc], MinOf(k, C))

C19_Evicts ==
    \A svc \in LogServices :
        /\ buffers[svc] # NoBuffer
        /\ RingLen(buffers[svc]) = buffers[svc].size
        /\ buffers'[svc] # buffers[svc]
        => GetAll(buffers'[svc]) =
              Append(Tail(GetAll(buffers[svc])), added'[svc][Len(added'[svc])])

C19_RingBufferFIFO == []C19_Snapshot /\ [][C19_Evicts]_vars

(* a buffer of capacity 2 that has overflowed twice *)
C19_Witness ==
    \E svc \in LogServices :
        /\ buffers[svc].size = 2
        /\ Len(added[svc]) = 4
        /\ GetAll(buffers[svc]) = <<added[svc][3], added[svc][4]>>


(***************************************************************************)
(* C20.  Publishing a log record never blocks: addLine can always run,     *)
(* and when it runs with the channel of a subscriber full it drops the     *)
(* record for that subscriber only, still appends it to the ring buffer of *)
(* the service and still delivers it to every other matching subscriber    *)
(* whose channel has room.                                                 *)
(***************************************************************************)
C20_NeverBlocks ==
    bufferSize > 0 /\ nLines < MaxLines =>
        \A svc \in LogServices : ENABLED addLine(svc)

Published == added' # added

PublishedLine ==
    LET svc == CHOOSE v \in LogServices : added'[v] # added[v]
    IN added'[svc][Len(added'[svc])]

C20_Publish ==
    Published =>
        LET line == PublishedLine
            buf == GetAll(buffers'[line.Service])
        IN /\ line.n = nLines + 1
           /\ buf # <<>> /\ buf[Len(buf)] = line
           /\ \A i \in DOMAIN subscribers :
                LET sub == subscribers[i]
                IN IF ~sub.active \/ ~matches(sub, line)
                   THEN subscribers'[i] = sub
                   ELSE IF Len(sub.ch) = SubscriberCap
                   THEN subscribers'[i] = sub
                   ELSE subscribers'[i].ch = Append(sub.ch, line)

C20_PublishNeverBlocks == []C20_NeverBlocks /\ [][C20_Publish]_vars

(* the newest line was dropped for a full subscriber and delivered to      *)
(* another one                                                             *)
C20_Witness ==
    \E i, j \in DOMAIN subscribers :
        /\ i # j
        /\ subscribers[i].active /\ subscribers[j].active
        /\ Len(subscribers[i].ch) = SubscriberCap
        /\ subscribers[i].ch[SubscriberCap].n < nLines
        /\ subscribers[j].ch # <<>>
        /\ LET newest == subscribers[j].ch[Len(subscribers[j].ch)]
           IN /\ newest.n = nLines
              /\ matches(subscribers[i], newest)
              /\ GetAll(buffers[newest.Service]) # <<>>


(***************************************************************************)
(* C21.  A subscriber created with a non-empty service filter never        *)
(* receives a record whose service is not in its filter, and a subscriber  *)
(* created with an empty filter is offered every published record of every *)
(* service: it gets the record whenever its channel has room.              *)
(***************************************************************************)
C21_OnlyFiltered ==
    \A i \in DOMAIN subscribers :
        subscribers[i].active /\ subscribers[i].services # {} =>
            \A k \in 1..Len(subscribers[i].ch) :
                subscribers[i].ch[k].Service \in subscribers[i].services

C21_AllOffered ==
    Published =>
        \A i \in DOMAIN subscribers :
            /\ subscribers[i].active
            /\ subscribers[i].services = {}
            /\ Len(subscribers[i].ch) < SubscriberCap
            => subscribers'[i].ch = Append(subscribers[i].ch, PublishedLine)

C21_SubscriptionFilter == []C21_OnlyFiltered /\ [][C21_AllOffered]_vars

(* a filtered subscriber holds a line of its service while a later line of *)
(* another service was published, and an unfiltered one holds lines of     *)
(* both services                                                           *)
C21_Witness ==
    \E i, j \in DOMAIN subscribers :
        /\ subscribers[i].active /\ subscribers[i].services = {"a"}
        /\ subscribers[i].ch # <<>>
        /\ \E k \in 1..Len(added["b"]) :
               added["b"][k].n > subscribers[i].ch[1].n
        /\ subscribers[j].active /\ subscribers[j].services = {}
        /\ { subscribers[j].ch[k].Service :
               k \in 1..Len(subscribers[j].ch) } = {"a", "b"}


(***************************************************************************)
(* LogManager.GetLines: the snapshots of the named services that have a    *)
(* buffer, appended in the order of the list, cut to the last count lines. *)
(***************************************************************************)
RECURSIVE appendSnapshots(_, _)
appendSnapshots(services, result) ==
    IF services = <<>> THEN result
    ELSE LET svc == Head(services)
             next == IF svc \in DOMAIN buffers /\ buffers[svc] # NoBuffer
                     THEN result \o GetAll(buffers[svc])
                     ELSE result
         IN appendSnapshots(Tail(services), next)

(* the cut keeping the first count lines *)
firstLines(result, count) ==
    IF Len(result) > count THEN SubSeq(result, 1, count) ELSE result

(* if len(result) > count { result = result[len(result)-count:] } *)
lastLines(result, count) ==
    IF Len(result) > count
    THEN SubSeq(result, Len(result) - count + 1, Len(result))
    ELSE result

GetLines(services, count) == lastLines(appendSnapshots(services, <<>>), count)

(* the log manager with one subscriber, read by GetLines *)
LinesNext ==
    \/ \E size \in 1..MaxBufferSize : NewLogManager(size)
    \/ \E f \in FilterSets : Subscribe(1, f)
    \/ Unsubscribe(1)
    \/ Receive(1)
    \/ \E svc \in LogServices : addLine(svc)

LinesSpec == InitWith({CHOOSE c \in Configs : TRUE}) /\ [][LinesNext]_vars

(* the lists of services and the counts that GetLines is asked with *)
LineRequests == {<<>>, <<"a">>, <<"a", "b">>, <<"b", "a">>, <<"x", "a">>}

LineCounts == 0..MaxLines

(***************************************************************************)
(* C22.  GetLines(services, n) is exactly the last min(n, total) records   *)
(* of the concatenation, in the caller's order of services, of the current *)
(* ring-buffer snapshots of the named services; every returned record is   *)
(* of a named service and n = 0 yields the empty list.  A snapshot is the  *)
(* last min(k, C) of the k lines added for the service.                    *)
(***************************************************************************)
SnapshotOf(svc) ==
    IF svc \in LogServices
    THEN LastOf(added[svc], MinOf(Len(added[svc]), bufferSize))
    ELSE <<>>

RECURSIVE Concatenation(_)
Concatenation(services) ==
    IF services = <<>> THEN <<>>
    ELSE SnapshotOf(Head(services)) \o Concatenation(Tail(services))

C22_GetLines ==
    \A services \in LineRequests :
        LET all == Concatenation(services)
        IN \A n \in LineCounts :
               LET got == GetLines(services, n)
               IN /\ got = LastOf(all, MinOf(n, Len(all)))
                  /\ \A k \in 1..Len(got) :
                         got[k].Service \in Range(services)
                  /\ n = 0 => got = <<>>

(* a request over two services whose concatenation is cut in the middle of *)
(* the first service's snapshot                                            *)
C22_Witness ==
    /\ Len(SnapshotOf("a")) = 2
    /\ Len(SnapshotOf("b")) = 1
    /\ Len(added["a"]) > bufferSize
    /\ GetLines(<<"a", "b">>, 2) = <<SnapshotOf("a")[2], SnapshotOf("b")[1]>>


(***************************************************************************)
(* One client connection and the requests on it.  A request line is        *)
(* whether it is valid JSON, its method, its params (ok, bad: not          *)
(* decodable into the method's params, follow: logs with follow:true for   *)
(* service a) and its id (0: none, as in a notification).  The methods that start and stop       *)
(* services are sent here with bad params only; their work is in Up, Down  *)
(* and Restart.  out is what has been written to the connection.           *)
(***************************************************************************)
ParseError == -32700
MethodNotFound == -32601
InvalidParams == -32602

RequestKinds ==
    { [json |-> FALSE, method |-> "", params |-> "", hasId |-> FALSE],
      [json |-> TRUE, method |-> "bogus", params |-> "ok", hasId |-> TRUE],
      [json |-> TRUE, method |-> "up", params |-> "bad", hasId |-> TRUE],
      [json |-> TRUE, method |-> "logs", params |-> "bad", hasId |-> TRUE],
      [json |-> TRUE, method |-> "status", params |-> "ok", hasId |-> TRUE],
      [json |-> TRUE, method |-> "status", params |-> "bad", hasId |-> TRUE],
      [json |-> TRUE, method |-> "status", params |-> "ok", hasId |-> FALSE],
      [json |-> TRUE, method |-> "logs", params |-> "ok", hasId |-> TRUE],
      [json |-> TRUE, method |-> "logs", params |-> "follow", hasId |-> TRUE] }

Methods == {"up", "down", "status", "restart", "logs"}

(* the methods whose handler calls req.ParseParams *)
ParsesParams(method) == method \in {"up", "down", "restart", "logs"}

ErrorResponse(code, id) ==
    [type |-> "error", id |-> id, code |-> code, line |-> NoLine]

ResultResponse(id) ==
    [type |-> "result", id |-> id, code |-> 0, line |-> NoLine]

Notification(line) ==
    [type |-> "log", id |-> 0, code |-> 0, line |-> line]

(* handleLogs: lines = 100 when the request names no count *)
DefaultLines == 100

(* the subscription of the follow handler of connection c *)
subOf(c) == c

(* an encoder.Encode on the connection succeeds *)
writable(c) == c \in connOpen /\ c \notin peerClosed

write(c, msg) ==
    IF writable(c) THEN [out EXCEPT ![c] = Append(@, msg)] ELSE out

(* handleConnection returning after a line that is not valid JSON *)
closesOnParseError(req) == ~req.json

(* handleConnection: every per-request error ends in continue *)
closesOnError(req) == FALSE

(* the accept loop taking one client only *)
AcceptOne == nConn = 0 /\ Accept

(* the client writes a request line *)
ClientSend(c, kind) ==
    /\ ~crashed
    /\ writable(c)
    /\ nSent < MaxSends
    /\ nSent' = nSent + 1
    /\ inbox' = [inbox EXCEPT ![c] = Append(@,
                    [json |-> kind.json, method |-> kind.method,
                     params |-> kind.params,
                     id |-> IF kind.hasId THEN nSent + 1 ELSE 0])]
    /\ UNCHANGED <<daemonVars, writerVars, configVars, busVars, serverVars, backoffVars, logVars, out, cur>>

(* a reader that returned the newest line received *)
newestLine(lines) == lines[Len(lines)]

(* bufio.Reader on the connection: the lines come in the order sent *)
nextLine(lines) == Head(lines)

(* reader.ReadBytes returns the oldest unread line *)
HandlerReadRequest(c) ==
    /\ ~crashed
    /\ handlers[c] = "read"
    /\ c \in connOpen
    /\ inbox[c] # <<>>
    /\ cur' = [cur EXCEPT ![c] = nextLine(inbox[c])]
    /\ inbox' = [inbox EXCEPT ![c] = Tail(@)]
    /\ handlers' = [handlers EXCEPT ![c] = "request"]
    /\ UNCHANGED <<daemonVars, writerVars, configVars, busVars, backoffVars, logVars, listener, socketFile,
                   conns, connOpen, peerClosed, acceptPc, accepted, runPc,
                   nConn, out, nSent>>

(* json.Unmarshal and handleRequest on the line read, up to the response   *)
(* or, for follow, up to the snapshot GetLogs returns; *req.ID of a        *)
(* request without id is a nil dereference                                 *)
HandleRequest(c) ==
    LET req == cur[c]
        toCheck == [handlers EXCEPT ![c] = "check"]
    IN /\ ~crashed
       /\ handlers[c] = "request"
       /\ req # NoRequest
       /\ cur' = [cur EXCEPT ![c] = NoRequest]
       /\ IF ~req.json
          THEN /\ out' = write(c, ErrorResponse(ParseError, 0))
               /\ IF closesOnError(req)
                  THEN HandlerReturn(c)
                  ELSE handlers' = toCheck /\ UNCHANGED <<conns, connOpen>>
               /\ UNCHANGED <<crashed, subscribers, snap>>
          ELSE IF req.method \notin Methods
          THEN /\ out' = write(c, ErrorResponse(MethodNotFound, req.id))
               /\ handlers' = toCheck
               /\ UNCHANGED <<crashed, subscribers, conns, connOpen, snap>>
          ELSE IF ParsesParams(req.method) /\ req.params = "bad"
          THEN /\ out' = write(c, ErrorResponse(InvalidParams, req.id))
               /\ handlers' = toCheck
               /\ UNCHANGED <<crashed, subscribers, conns, connOpen, snap>>
          ELSE IF req.id = 0
          THEN /\ crashed' = TRUE
               /\ UNCHANGED <<out, handlers, subscribers, conns, connOpen, snap>>
          ELSE IF req.params = "follow"
          THEN /\ snap' = [snap EXCEPT ![c] =
                             [id |-> req.id,
                              lines |-> GetLines(<<"a">>, DefaultLines)]]
               /\ handlers' = [handlers EXCEPT ![c] = "snapshot"]
               /\ UNCHANGED <<crashed, out, subscribers, conns, connOpen>>
          ELSE /\ out' = write(c, ResultResponse(req.id))
               /\ handlers' = toCheck
               /\ UNCHANGED <<crashed, subscribers, conns, connOpen, snap>>
       /\ UNCHANGED <<cfg, writerVars, configVars, chans, procVars, dCancelled, op, pendingRestart,
                      shutdownPending, nReq, supVars, downed, booted,
                      backoffVars, bufferSize, buffers, nLines, added,
                      listener, socketFile, peerClosed, acceptPc, accepted,
                      runPc, nConn, inbox, nSent>>

(* handleLogs in follow mode after its snapshot: the initial response is   *)
(* encoded, then SubscribeLogs registers the channel the loop reads        *)
handleLogsFollow(c) ==
    /\ ~crashed
    /\ handlers[c] = "snapshot"
    /\ out' = write(c, ResultResponse(snap[c].id))
    /\ subscribers' = [subscribers EXCEPT ![subOf(c)] =
                         [active |-> TRUE, ch |-> <<>>, services |-> {"a"}]]
    /\ handlers' = [handlers EXCEPT ![c] = "follow"]
    /\ snap' = [snap EXCEPT ![c] = NoSnapshot]
    /\ UNCHANGED <<daemonVars, writerVars, configVars, chans, backoffVars,
                   bufferSize, buffers, nLines, added, listener, socketFile,
                   conns, connOpen, peerClosed, acceptPc, accepted, runPc,
                   nConn, inbox, cur, nSent>>

(* handleLogs, follow loop: a line from the channel is encoded as a log    *)
(* notification; a failed write ends the loop and the deferred             *)
(* UnsubscribeLogs runs                                                    *)
FollowNotify(c) ==
    LET sub == subscribers[subOf(c)]
    IN /\ ~crashed
       /\ handlers[c] = "follow"
       /\ sub.ch # <<>>
       /\ IF writable(c)
          THEN /\ out' = write(c, Notification(Head(sub.ch)))
               /\ subscribers' = [subscribers EXCEPT ![subOf(c)].ch = Tail(@)]
               /\ UNCHANGED handlers
          ELSE /\ subscribers' = [subscribers EXCEPT ![subOf(c)] = NoSubscriber]
               /\ handlers' = [handlers EXCEPT ![c] = "check"]
               /\ UNCHANGED out
       /\ UNCHANGED <<daemonVars, writerVars, configVars, busVars, backoffVars, bufferSize, buffers, nLines,
                      added, listener, socketFile, conns, connOpen,
                      peerClosed, acceptPc, accepted, runPc, nConn, inbox,
                      cur, nSent>>

(* handleLogs, follow loop: case <-ctx.Done() *)
FollowDone(c) ==
    /\ ~crashed
    /\ handlers[c] = "follow"
    /\ dCancelled
    /\ subscribers' = [subscribers EXCEPT ![subOf(c)] = NoSubscriber]
    /\ handlers' = [handlers EXCEPT ![c] = "check"]
    /\ UNCHANGED <<daemonVars, writerVars, configVars, busVars, backoffVars, bufferSize, buffers, nLines,
                   added, listener, socketFile, conns, connOpen, peerClosed,
                   acceptPc, accepted, runPc, nConn, connVars>>

(* a service writes a line while a client follows, from the snapshot of    *)
(* its request on                                                          *)
FollowedLine ==
    /\ \/ \E i \in 1..MaxSubscribers : subscribers[i].active
       \/ \E c \in Conns : handlers[c] = "snapshot"
    /\ addLine("a")

(* what the handler goroutine of a connection does by itself *)
HandlerSteps ==
    \/ \E c \in Conns : HandlerCheck(c)
    \/ \E c \in Conns : HandlerReadRequest(c)
    \/ \E c \in Conns : HandlerReadError(c)
    \/ \E c \in Conns : HandleRequest(c)
    \/ \E c \in Conns : handleLogsFollow(c)
    \/ \E c \in Conns : FollowNotify(c)
    \/ \E c \in Conns : FollowDone(c)

ConnNext ==
    \/ NewLogManager(MaxBufferSize)
    \/ ServerListen
    \/ AcceptOne
    \/ AcceptFails
    \/ Register
    \/ ShutdownCancel
    \/ ServerCloseListener
    \/ ServerCloseConns
    \/ \E c \in Conns : \E k \in RequestKinds : ClientSend(c, k)
    \/ \E c \in Conns : ClientClose(c)
    \/ FollowedLine
    \/ \E c \in Conns : HandlerCheck(c)
    \/ \E c \in Conns : HandlerReadRequest(c)
    \/ \E c \in Conns : HandlerReadError(c)
    \/ \E c \in Conns : HandleRequest(c)
    \/ \E c \in Conns : handleLogsFollow(c)
    \/ \E c \in Conns : FollowNotify(c)
    \/ \E c \in Conns : FollowDone(c)

ConnSpec == InitWith({CHOOSE c \in Configs : TRUE}) /\ [][ConnNext]_vars

(* the goroutines of the server run whenever they can; the client, the     *)
(* services' output and the shutdown signal need not come                  *)
RunSteps ==
    \/ ServerListen
    \/ ServerCloseListener
    \/ ServerCloseConns
    \/ AcceptFails
    \/ Register

FairConnSpec ==
    /\ ConnSpec
    /\ WF_vars(RunSteps)
    /\ WF_vars(HandlerSteps)

(* the follow handler of c has nothing left to wait for *)
FollowOver(c) ==
    handlers[c] = "follow" /\ (c \in peerClosed \/ dCancelled)

(* the follow handler of c has left its loop and its subscription is gone *)
FollowGone(c) ==
    handlers[c] # "follow" /\ ~subscribers[subOf(c)].active

(* C23: once the client of a follow-mode logs request has closed its       *)
(* connection or the daemon shuts down, the handler eventually leaves the  *)
(* follow loop and its subscription is removed, whether or not a further   *)
(* record is published.                                                    *)
C23_FollowEnds ==
    \A c \in Conns : [](FollowOver(c) => <>FollowGone(c))

(* the part of C23 that the daemon's shutdown is responsible for *)
C23_FollowEndsOnShutdown ==
    \A c \in Conns : [](handlers[c] = "follow" /\ dCancelled => <>FollowGone(c))


(* the handler of c handles the request it has read *)
Handles(c) ==
    handlers[c] = "request" /\ cur[c] # NoRequest /\ cur'[c] = NoRequest

(* the error code a request is refused with, 0 when it is not refused *)
ExpectedCode(req) ==
    IF ~req.json THEN ParseError
    ELSE IF req.method \notin Methods THEN MethodNotFound
    ELSE IF ParsesParams(req.method) /\ req.params = "bad" THEN InvalidParams
    ELSE 0

(* the last message written to c is an error response *)
AfterError(c) ==
    out[c] # <<>> /\ out[c][Len(out[c])].type = "error"

C24_Refused(c) ==
    LET req == cur[c]
    IN Handles(c) /\ ExpectedCode(req) # 0 =>
          /\ writable(c) =>
                out'[c] = Append(out[c], ErrorResponse(ExpectedCode(req), req.id))
          /\ connOpen' = connOpen
          /\ conns' = conns
          /\ handlers'[c] = "check"
          /\ ~crashed'

C24_NextAnswered(c) ==
    LET req == cur[c]
    IN Handles(c) /\ AfterError(c) /\ writable(c) /\ req.id # 0 =>
          IF ExpectedCode(req) = 0 /\ req.params = "follow"
          THEN /\ handlers'[c] = "snapshot"
               /\ snap'[c].id = req.id
          ELSE /\ Len(out'[c]) = Len(out[c]) + 1
               /\ out'[c][Len(out'[c])].id = req.id
               /\ out'[c][Len(out'[c])].code = ExpectedCode(req)

(* a follow request is answered once its snapshot is taken *)
C24_FollowAnswered(c) ==
    handlers[c] = "snapshot" /\ handlers'[c] # "snapshot" /\ writable(c) =>
        out'[c] = Append(out[c], ResultResponse(snap[c].id))

(* C24: a line that is not valid JSON is answered with code -32700, an     *)
(* unknown method with -32601 and params that do not decode with -32602;   *)
(* the connection stays open and registered, the handler goes on to read,  *)
(* and the request after an error is answered like any other.              *)
C24_ErrorsKeepConnection ==
    [][\A c \in Conns : /\ C24_Refused(c)
                        /\ C24_NextAnswered(c)
                        /\ C24_FollowAnswered(c)]_vars

(* an error response followed on the same connection by a result *)
C24_Witness ==
    \E c \in Conns :
        /\ Len(out[c]) = 2
        /\ out[c][1].type = "error"
        /\ out[c][1].code \in {ParseError, MethodNotFound, InvalidParams}
        /\ out[c][2].type = "result"
        /\ out[c][2].id = 2


(* the ids of the responses written to c, those of notifications and of    *)
(* answers to unparsed lines (no id) left out                              *)
RECURSIVE ResponseIds(_)
ResponseIds(msgs) ==
    IF msgs = <<>> THEN <<>>
    ELSE IF Head(msgs).id # 0 THEN <<Head(msgs).id>> \o ResponseIds(Tail(msgs))
    ELSE ResponseIds(Tail(msgs))

Increasing(ids) ==
    \A i, j \in 1..Len(ids) : i < j => ids[i] < ids[j]

(* the client numbers its requests as it sends them, so arrival order is   *)
(* the order of the ids                                                    *)
C30_ArrivalOrder ==
    \A c \in Conns : Increasing(ResponseIds(out[c]))

(* once notifications flow, nothing else is written to the connection *)
C30_StreamUnbroken ==
    \A c \in Conns : \A i, j \in 1..Len(out[c]) :
        i < j /\ out[c][i].type = "log" => out[c][j].type = "log"

(* a write to c is one whole message appended by the handler of c, at its  *)
(* request step, before it subscribes or in its follow loop, and the       *)
(* follow loop writes notifications only                                   *)
C30_OneWriter ==
    \A c \in Conns :
        out'[c] # out[c] =>
            /\ handlers[c] \in {"request", "snapshot", "follow"}
            /\ \E msg \in {out'[c][Len(out'[c])]} :
                  /\ out'[c] = Append(out[c], msg)
                  /\ handlers[c] = "follow" => msg.type = "log"
                  /\ handlers[c] = "request" =>
                        msg.type # "log" /\ msg.id = cur[c].id
                  /\ handlers[c] = "snapshot" =>
                        msg.type = "result" /\ msg.id = snap[c].id

(* C30: within one connection the responses are written in the order the   *)
(* requests arrived, each write is one whole message by that connection's  *)
(* handler, and no response is written between or after the notifications  *)
(* of a follow-mode logs request.                                          *)
C30_OrderedWrites ==
    /\ [](C30_ArrivalOrder /\ C30_StreamUnbroken)
    /\ [][C30_OneWriter]_vars

(* a follow stream in progress while a later request waits unread *)
C30_Witness ==
    \E c \in Conns :
        /\ handlers[c] = "follow"
        /\ Len(out[c]) >= 2
        /\ out[c][1].type = "result"
        /\ out[c][2].type = "log"
        /\ inbox[c] # <<>>


(* a turn of an up in which Process.Start ran for n and no process came    *)
(* of it                                                                   *)
SpawnFailed(n) ==
    /\ UpTurn
    /\ n = op.list[op.idx]
    /\ n \in Services
    /\ nStart' # nStart
    /\ Launches = {}

Bytes == {"x", "y", "nl"}

RECURSIVE SeqsUpTo(_, _)
SeqsUpTo(S, n) ==
    IF n = 0 THEN {<<>>}
    ELSE LET shorter == SeqsUpTo(S, n - 1)
         IN shorter \cup { Append(q, b) : q \in shorter, b \in S }

Chunks == SeqsUpTo(Bytes, MaxChunk)

(* strings.Split(data, "\n") *)
RECURSIVE Split(_)
Split(data) ==
    IF \A i \in 1..Len(data) : data[i] # "nl" THEN <<data>>
    ELSE LET i == CHOOSE k \in 1..Len(data) :
                      data[k] = "nl" /\ \A j \in 1..(k - 1) : data[j] # "nl"
         IN <<SubSeq(data, 1, i - 1)>> \o Split(SubSeq(data, i + 1, Len(data)))

(* a Write that forgot the incomplete line of the previous call *)
dropped(incomplete) == <<>>

(* data := w.partial + string(p) *)
carried(incomplete) == incomplete

(* logWriter.Write: the complete, non-empty lines of partial + p go to     *)
(* addLine, the rest is kept for the next call                             *)
Write(p) ==
    LET data == carried(partial) \o p
        lines == Split(data)
        complete == SubSeq(lines, 1, Len(lines) - 1)
        NonEmpty(l) == l # <<>>
    IN /\ Len(chunks) < MaxWrites
       /\ chunks' = Append(chunks, p)
       /\ emitted' = emitted \o SelectSeq(complete, NonEmpty)
       /\ partial' = lines[Len(lines)]
       /\ UNCHANGED <<daemonVars, serverVars, backoffVars, logVars, connVars, busVars,
                      configVars>>

WriterNext == \E p \in Chunks : Write(p)

WriterSpec == InitWith({CHOOSE c \in Configs : TRUE}) /\ [][WriterNext]_vars

(* everything written so far, as one string *)
RECURSIVE Concat(_)
Concat(cs) == IF cs = <<>> THEN <<>> ELSE Head(cs) \o Concat(Tail(cs))

(* the non-empty newline-terminated segments of a string, read byte by     *)
(* byte: line is the segment being read, recs the segments completed       *)
RECURSIVE Segments(_, _, _)
Segments(bytes, line, recs) ==
    IF bytes = <<>> THEN [records |-> recs, rest |-> line]
    ELSE IF Head(bytes) = "nl"
    THEN Segments(Tail(bytes), <<>>,
                  IF line = <<>> THEN recs ELSE Append(recs, line))
    ELSE Segments(Tail(bytes), Append(line, Head(bytes)), recs)

(* C26: whatever the chunking, the records emitted are, in order, the      *)
(* non-empty newline-terminated segments of the concatenation of the bytes *)
(* written; the bytes after the last newline are held back and empty       *)
(* lines are dropped.                                                      *)
C26_ChunkingIndependent ==
    LET all == Segments(Concat(chunks), <<>>, <<>>)
    IN /\ emitted = all.records
       /\ partial = all.rest

(* a line written in two pieces has been emitted once, whole *)
C26_Witness ==
    /\ Len(chunks) = 2
    /\ chunks[1] = <<"x">>
    /\ chunks[2] = <<"y", "nl">>
    /\ emitted = << <<"x", "y">> >>
    /\ partial = <<>>


(* the run c of a service ends in this step *)
RunExits(c) ==
    /\ c \in children
    /\ \A o \in children' : o.pid # c.pid

(* C27: when a run of a service exits, the state becomes stopped if it was *)
(* stopping; otherwise failed if the exit code is not 0 (a run ended by a  *)
(* signal included), and stopped if it is 0.                               *)
C27_StateAfterExit ==
    [][\A c \in children : RunExits(c) =>
          LET s == c.svc
          IN /\ state[s] = StateStopping => state'[s] = StateStopped
             /\ state[s] # StateStopping =>
                   /\ state'[s] \in {StateStopped, StateFailed}
                   /\ pid[s] = c.pid =>
                         (state'[s] = StateFailed <=> exitCode'[s] # 0)
                   /\ c.term \/ c.kill => state'[s] = StateFailed
                   /\ ~c.term /\ ~c.kill /\ cfg.exits[s] = {0} =>
                         state'[s] = StateStopped
                   /\ ~c.term /\ ~c.kill /\ 0 \notin cfg.exits[s] =>
                         state'[s] = StateFailed]_vars

(* with no supervisor and no request to stop them, one service has exited  *)
(* with code 0 and is stopped and another with code 1 and is failed        *)
C27_Witness ==
    \E s, t \in Services :
        /\ GetRestartPolicy(cfg, s) = RestartNever
        /\ state[s] = StateStopped /\ pid[s] > 0 /\ exitCode[s] = 0
        /\ ChildrenOf(s) = {}
        /\ state[t] = StateFailed /\ pid[t] > 0 /\ exitCode[t] = 1
        /\ ChildrenOf(t) = {}
        /\ downed = {}


(***************************************************************************)
(* The supervised service with every kind of request: up, down and restart *)
(* for service a while the Supervisor watches it.                          *)
(***************************************************************************)
CountedNext ==
    \/ RunDaemon(SupervisedTargets)
    \/ Up(SupervisedTargets)
    \/ Down(SupervisedTargets)
    \/ Restart(SupervisedTargets)
    \/ RestartStart
    \/ StartStep
    \/ StartReturn
    \/ StopStep
    \/ StopDone
    \/ StopTimeout
    \/ StopReturn
    \/ ChildExits
    \/ StartMonitoring("a")
    \/ \E m \in mons : SupervisorWait(m)
    \/ \E m \in mons : SupervisorRestart(m)

CountedSpec == SupInit /\ [][CountedNext]_vars

(* the restart attempts for s made in this step: a monitor of s leaves its *)
(* backoff and calls Start, whatever comes of the call                     *)
Attempts(s) ==
    { m \in mons : /\ m.svc = s
                   /\ m.pc = "backoff"
                   /\ \E n \in mons' : n.id = m.id /\ n.pc = "wait" }

C28_Step ==
    /\ \A s \in Services :
           restarts'[s] = restarts[s] + Cardinality(Attempts(s))
    /\ op' # op => restarts' = restarts

(* C28: the restarts counter of a service starts at 0, never decreases, is *)
(* left alone by every step of an up, down or restart request and grows by *)
(* exactly one with each restart attempt of the supervisor, the attempts   *)
(* whose launch fails included.                                            *)
C28_RestartsCounter ==
    /\ \A s \in Services : restarts[s] = 0
    /\ [][C28_Step]_vars

(* with no request made, the one restart attempt so far failed to launch   *)
(* the service and was counted                                             *)
C28_Witness ==
    \E s \in Services :
        /\ restarts[s] = 1
        /\ nStart = 2
        /\ state[s] = StateFailed
        /\ pid[s] = 0
        /\ nReq = 0


(***************************************************************************)
(* Config.Validate on a parsed file.  A graph is the file's services in    *)
(* file order with their depends_on lists, every entry a defined service.  *)
(***************************************************************************)
GraphNames == <<"a", "b", "c", "d", "e">>

NodeSeq(k) == SubSeq(GraphNames, 1, k)

(* the graph of k services with the depends_on entries E, listed in order  *)
GraphOf(k, E, order) ==
    [order |-> order,
     deps  |-> [n \in Range(NodeSeq(k)) |->
                   SelectSeq(NodeSeq(k), LAMBDA m : <<n, m>> \in E)]]

(* the sets of at most n of the entries in D *)
RECURSIVE EntrySets(_, _)
EntrySets(D, n) ==
    IF n = 0 THEN {{}}
    ELSE LET fewer == EntrySets(D, n - 1)
         IN fewer \cup { F \cup {e} : F \in fewer, e \in D }

Graphs ==
    UNION { { GraphOf(k, E, order) :
                E \in EntrySets(Range(NodeSeq(k)) \X Range(NodeSeq(k)), MaxEdges),
                order \in {NodeSeq(k), Reverse(NodeSeq(k))} } :
            k \in 1..MaxGraph }

(* a search that forgot which services it has finished *)
leftInPath(st, name) == st

(* state[name] = 2 *)
markDone(st, name) == [st EXCEPT ![name] = 2]

RECURSIVE detectVisit(_, _, _)
RECURSIVE detectVisitAll(_, _, _)

(* detectCycles, visit: 0 unvisited, 1 in the current path, 2 finished *)
detectVisit(g, name, st) ==
    IF st[name] = 2 THEN [err |-> FALSE, state |-> st]
    ELSE IF st[name] = 1 THEN [err |-> TRUE, state |-> st]
    ELSE LET r == detectVisitAll(g, g.deps[name], [st EXCEPT ![name] = 1])
         IN IF r.err THEN r
            ELSE [err |-> FALSE, state |-> markDone(r.state, name)]

detectVisitAll(g, names, st) ==
    IF names = <<>> THEN [err |-> FALSE, state |-> st]
    ELSE LET r == detectVisit(g, Head(names), st)
         IN IF r.err THEN r ELSE detectVisitAll(g, Tail(names), r.state)

detectCycles(g) ==
    detectVisitAll(g, g.order, [n \in DOMAIN g.deps |-> 0]).err

(* config.Parse has read a file *)
Parse(g) ==
    /\ graph = NoGraph
    /\ graph' = g
    /\ UNCHANGED <<daemonVars, serverVars, backoffVars, logVars, connVars, busVars,
                   writerVars, verdict>>

(* Config.Validate, its last check *)
Validate ==
    /\ graph # NoGraph
    /\ verdict = "none"
    /\ verdict' = IF detectCycles(graph) THEN "circular dependency" ELSE "ok"
    /\ UNCHANGED <<daemonVars, serverVars, backoffVars, logVars, connVars, busVars,
                   writerVars, graph>>

ValidateNext ==
    \/ graph = NoGraph /\ \E g \in Graphs : Parse(g)
    \/ Validate

ValidateSpec == InitWith({CHOOSE c \in Configs : TRUE}) /\ [][ValidateNext]_vars

(* the services reachable from the set S along depends_on *)
RECURSIVE Reachable(_, _)
Reachable(g, S) ==
    LET T == S \cup UNION { Range(g.deps[n]) : n \in S }
    IN IF T = S THEN S ELSE Reachable(g, T)

HasCycle(g) ==
    \E n \in DOMAIN g.deps : n \in Reachable(g, Range(g.deps[n]))

(* C29: for services whose depends_on entries are all defined, validation  *)
(* reports a circular dependency exactly when the dependency graph has a   *)
(* cycle, a self-dependency included; what it accepts is a DAG.            *)
C29_CycleDetection ==
    verdict # "none" =>
        (verdict = "circular dependency" <=> HasCycle(graph))

(* a file whose only dependency is a service's on itself has been refused  *)
C29_Witness ==
    /\ verdict = "circular dependency"
    /\ \E n \in DOMAIN graph.deps :
           /\ graph.deps[n] = <<n>>
           /\ \A m \in DOMAIN graph.deps \ {n} : graph.deps[m] = <<>>


(* Process.Start went past its check for s in this step *)
StartRan(s) == done'[s] # done[s]

(* C31: Process.Start goes ahead only from state stopped or failed; from   *)
(* any other state, stopping included, it is rejected: no state change and *)
(* no child.                                                               *)
C31_StartOnlyWhenEnded ==
    [][\A s \in Services :
          /\ StartRan(s) => state[s] \in {StateStopped, StateFailed}
          /\ state[s] \notin {StateStopped, StateFailed} =>
                \A c \in Launches : c.svc # s]_vars


(* a restart request has finished its stop phase and not begun its start   *)
(* phase                                                                   *)
BetweenPhases == pendingRestart # <<>> /\ op.kind = "idle"

(* C32: lifecycle requests are serialized; between the stop phase and the  *)
(* start phase of a restart no other up, down, restart or shutdown takes   *)
(* effect: the next operation to begin is that restart's start phase and   *)
(* the daemon's context is not cancelled meanwhile.                        *)
C32_RestartIsAtomic ==
    [][BetweenPhases =>
          /\ op' # op => op'.kind = "start" /\ op'.origin = "restart"
          /\ dCancelled' = dCancelled]_vars


(* the goroutines of the Supervisor: a select whose case is ready is taken *)
(* and time.After fires                                                    *)
SupervisorSteps ==
    \/ \E m \in mons : SupervisorWait(m)
    \/ \E m \in mons : SupervisorRestart(m)

FairSupervisedSpec ==
    /\ SupervisedSpec
    /\ WF_vars(DaemonSteps)
    /\ WF_vars(ChildExits)
    /\ WF_vars(SupervisorSteps)

(* a monitor of s is back at its first select after an attempt whose spawn *)
(* failed, its context not cancelled                                       *)
AttemptFailed(s) ==
    /\ s \in Services
    /\ state[s] = StateFailed
    /\ pid[s] = 0
    /\ restarts[s] > 0
    /\ \E m \in mons : /\ m.svc = s
                       /\ m.pc = "wait"
                       /\ m.gen = done[s]
                       /\ ~CtxDone(m.id)

(* a monitor of s is on its way to the next attempt, or none is left *)
Retrying(s) ==
    \/ \E m \in mons : m.svc = s /\ m.pc = "backoff"
    \/ \A m \in mons : m.svc = s => CtxDone(m.id)
    \/ \A m \in mons : m.svc # s

(* C33: after a restart attempt that failed to spawn, the supervisor,      *)
(* unless cancelled, eventually goes on to another attempt.                *)
C33_FailedAttemptRetried ==
    \A s \in Names : [](AttemptFailed(s) => <>Retrying(s))


(* a Process.Stop call is between its SIGTERM and its return *)
StopWaiting == op.kind = "stop" /\ op.wait.phase # "none"

(* Process.Stop returns in this step *)
StopReturns == StopWaiting /\ op'.wait.phase = "none"

(* C34: every Process.Stop call eventually returns, whatever child exits,  *)
(* supervisor restarts and other calls come in between; and when it        *)
(* returns, the child it signalled has exited and the state is stopped.    *)
C34_StopReturns ==
    /\ [](StopWaiting => <>(~StopWaiting \/ crashed))
    /\ [][StopReturns =>
             /\ \A c \in children : c.pid # op.wait.pid
             /\ state[op.wait.name] = StateStopped]_vars


(* C35: at most one live child exists per service in every reachable       *)
(* state: no child is spawned for a service while an earlier child of it   *)
(* has not exited.                                                         *)
C35_OneLiveChild ==
    \A s \in Services : Cardinality(ChildrenOf(s)) <= 1


(***************************************************************************)
(* The supervised service with its monitor replaced and cancelled:         *)
(* StartMonitoring is called again for service a while a monitor of it     *)
(* lives, and StopMonitoring cancels it.                                   *)
(***************************************************************************)
ReplacedNext ==
    \/ RunDaemon(SupervisedTargets)
    \/ Up(SupervisedTargets)
    \/ Down(SupervisedTargets)
    \/ StartStep
    \/ StartReturn
    \/ StopStep
    \/ StopDone
    \/ StopTimeout
    \/ StopReturn
    \/ ChildExits
    \/ StartMonitoringUpTo("a", MaxMonitors + 1)
    \/ StopMonitoring("a")
    \/ \E m \in mons : SupervisorWait(m)
    \/ \E m \in mons : SupervisorRestart(m)

ReplacedSpec == SupInit /\ [][ReplacedNext]_vars

(* the monitors that have taken the exit that closed g and are on their    *)
(* way to a restart attempt                                                *)
ActedOn(g) == { m \in mons : m.gen = g /\ m.pc = "backoff" }

(* the monitors that can still take the exit that closed g *)
CanActOn(g) ==
    { m \in mons : m.gen = g /\ m.pc = "wait" /\ ~CtxDone(m.id) }

(* the exits of the children of s so far: each closes one done channel *)
Exits(s) == Cardinality(closed)

C36_OneActor ==
    \A g \in 1..MaxStarts : Cardinality(ActedOn(g) \cup CanActOn(g)) <= 1

C36_Counted ==
    ~crashed => restarts["a"] <= Exits("a")

MaxChans == 2
MaxPublished == 2

(* the channel registered in slot i of m.subscribers, 0 if none *)
keyOf(i) ==
    IF subscribers[i].active /\ \E id \in DOMAIN chans : chans[id].slot = i
    THEN CHOOSE id \in DOMAIN chans :
            /\ chans[id].slot = i
            /\ \A other \in DOMAIN chans : chans[other].slot = i => other <= id
    ELSE 0

(* sub, ok := m.subscribers[ch] *)
found(id) == keyOf(chans[id].slot) = id

(* an Unsubscribe that closes the channel and leaves its entry in the map *)
deleteSkipped(i) == subscribers

(* delete(m.subscribers, ch) *)
delete(i) == [subscribers EXCEPT ![i] = NoSubscriber]

SubscribeChan(i, services) ==
    /\ bufferSize > 0
    /\ ~subscribers[i].active
    /\ Len(chans) < MaxChans
    /\ subscribers' = [subscribers EXCEPT
                         ![i] = [active |-> TRUE, ch |-> <<>>,
                                 services |-> services]]
    /\ chans' = Append(chans, [slot |-> i, closes |-> 0, unsubs |-> "none",
                               sentClosed |-> FALSE])
    /\ UNCHANGED <<daemonVars, writerVars, configVars, serverVars, backoffVars,
                   connVars, bufferSize, buffers, nLines, added, snap>>

(* Unsubscribe(ch) for any channel Subscribe has returned, registered or   *)
(* not                                                                     *)
UnsubscribeChan(id) ==
    /\ id \in DOMAIN chans
    /\ chans[id].unsubs # "again"
    /\ chans' = [chans EXCEPT
                   ![id].unsubs = IF @ = "none" THEN "once" ELSE "again",
                   ![id].closes = IF found(id) THEN @ + 1 ELSE @]
    /\ subscribers' = IF found(id) THEN delete(chans[id].slot)
                      ELSE subscribers
    /\ UNCHANGED <<daemonVars, writerVars, configVars, serverVars, backoffVars,
                   connVars, bufferSize, buffers, nLines, added, snap>>

(* addLine: the sends go to the channels of the entries of m.subscribers;  *)
(* a send on a closed channel is recorded                                  *)
addLineChans(svc) ==
    LET line == [Service |-> svc, n |-> nLines + 1]
        buf == IF buffers[svc] = NoBuffer THEN NewRingBuffer(bufferSize)
               ELSE buffers[svc]
    IN /\ bufferSize > 0
       /\ nLines < MaxPublished
       /\ nLines' = nLines + 1
       /\ buffers' = [buffers EXCEPT ![svc] = Add(buf, line)]
       /\ added' = [added EXCEPT ![svc] = Append(@, line)]
       /\ subscribers' =
            [i \in DOMAIN subscribers |->
               IF subscribers[i].active /\ matches(subscribers[i], line)
               THEN trySend(subscribers[i], line)
               ELSE subscribers[i]]
       /\ chans' =
            [id \in DOMAIN chans |->
               IF /\ found(id)
                  /\ matches(subscribers[chans[id].slot], line)
                  /\ chans[id].closes > 0
               THEN [chans[id] EXCEPT !.sentClosed = TRUE]
               ELSE chans[id]]
       /\ UNCHANGED <<daemonVars, writerVars, configVars, serverVars,
                      backoffVars, connVars, bufferSize, snap>>

BusNext ==
    \/ NewLogManager(MaxBufferSize)
    \/ \E i \in 1..MaxSubscribers : \E f \in FilterSets : SubscribeChan(i, f)
    \/ \E id \in 1..MaxChans : UnsubscribeChan(id)
    \/ \E i \in 1..MaxSubscribers : Receive(i)
    \/ \E svc \in LogServices : addLineChans(svc)

BusSpec == InitWith({CHOOSE c \in Configs : TRUE}) /\ [][BusNext]_vars

(* the channel is an entry of the set addLine iterates *)
Registered(id) ==
    /\ subscribers[chans[id].slot].active
    /\ \A other \in DOMAIN chans :
          chans[other].slot = chans[id].slot => other <= id

C37_ClosedOnce ==
    \A id \in DOMAIN chans :
        /\ chans[id].closes <= 1
        /\ ~chans[id].sentClosed
        /\ chans[id].closes = 1 => ~Registered(id)
        /\ chans[id].unsubs # "none" => chans[id].closes = 1

C37_ClosedWhenRemoved ==
    \A id \in DOMAIN chans :
        chans'[id].closes > chans[id].closes =>
            Registered(id) /\ ~Registered(id)'

(* C37: the log bus never sends on a closed subscription channel and never *)
(* closes a channel twice: whatever the order of publish, Subscribe and    *)
(* Unsubscribe, Unsubscribe called twice with one channel included, a      *)
(* channel is closed exactly once, in the step that removes it from the    *)
(* set publish iterates.                                                   *)
C37_ChannelClosedOnce == []C37_ClosedOnce /\ [][C37_ClosedWhenRemoved]_vars

(* Unsubscribe was called twice with a channel whose slot holds a newer    *)
(* channel by now, and a line was published after that                     *)
C37_Witness ==
    \E id, newer \in DOMAIN chans :
        /\ id < newer
        /\ chans[id].slot = chans[newer].slot
        /\ chans[id].unsubs = "again"
        /\ chans[id].closes = 1
        /\ Registered(newer)
        /\ subscribers[chans[newer].slot].ch # <<>>


(* the request being handled is a well-formed call of a known method that  *)
(* carries no id                                                           *)
NotificationCall(c) ==
    /\ Handles(c)
    /\ cur[c].json
    /\ cur[c].method \in Methods
    /\ cur[c].id = 0

(* C38: handling a decoded message never dereferences a missing id: a      *)
(* well-formed message for up, down, status, restart or logs without an id *)
(* is processed without a nil dereference, so no client message crashes    *)
(* the daemon.                                                             *)
C38_NoNilDereference ==
    [][\A c \in Conns : NotificationCall(c) => ~crashed']_vars


(* the follow request of c has taken its snapshot and its stream has not   *)
(* ended                                                                   *)
Following(c) == handlers[c] \in {"snapshot", "follow"}

(* the line is part of the initial response of the follow request of c *)
InSnapshot(c, line) ==
    \E i \in 1..Len(snap[c].lines) : snap[c].lines[i] = line

(* a line published for the followed service is in the snapshot, or put on *)
(* the subscription channel, or dropped because that channel is full       *)
C39_Kept(c) ==
    Following(c) /\ Published /\ PublishedLine.Service = "a" =>
        LET sub == subscribers[subOf(c)]
        IN \/ InSnapshot(c, PublishedLine)
           \/ sub.active /\ Len(sub.ch) = SubscriberCap
           \/ sub.active /\ subscribers'[subOf(c)].ch = Append(sub.ch, PublishedLine)

(* a line taken from the subscription channel is written as a notification *)
C39_Delivered(c) ==
    LET sub == subscribers[subOf(c)]
    IN /\ handlers[c] = "follow"
       /\ sub.ch # <<>>
       /\ subscribers'[subOf(c)].active
       /\ subscribers'[subOf(c)].ch = Tail(sub.ch)
       /\ writable(c)
       => out'[c] = Append(out[c], Notification(Head(sub.ch)))

(* C39: a follow-mode logs request loses no record at the hand-over from   *)
(* snapshot to stream: every record published for a followed service after *)
(* the snapshot is taken is in the initial response or delivered as a log  *)
(* notification, unless it is dropped because the channel is full.         *)
C39_NoRecordLost ==
    [][\A c \in Conns : C39_Kept(c) /\ C39_Delivered(c)]_vars

(* the same for the records published once the subscription exists *)
C39_NoRecordLostInStream ==
    [][\A c \in Conns : /\ handlers[c] = "follow" => C39_Kept(c)
                        /\ C39_Delivered(c)]_vars

====
